---- MODULE Spec2Model ----
(***************************************************************************)
(* Function multi-versioning (src/src/llvm-multiversioning.cpp).           *)
(*                                                                         *)
(* The image is a set of functions, each a declaration or a body, the call *)
(* sites of the bodies, data symbols whose initializers hold function      *)
(* references, and at most one alias.  annotate_module_clones decides the  *)
(* clone sets; runMultiVersioning then runs the phases prepare_slots,      *)
(* clone_decls, clone_bodies, fix_gv_uses, fix_inst_uses, emit_metadata.   *)
(*                                                                         *)
(* A global value is a triple <<kind, n, t>>:                              *)
(*   <<"f", n, t>>  function n as cloned for target t (t = 0: original),   *)
(*                  named "<n>.<t>"                                        *)
(*   <<"s", n, k>>  the k-th created relocation slot, made for function n  *)
(*   <<"a", n, 0>>  the alias (or the trampoline that took its name)       *)
(*   <<"d", n, 0>>  data symbol n                                          *)
(*   <<"b", 0, 0>>  the base variable of an empty offset table              *)
(*                                                                         *)
(* Specifications:                                                         *)
(*   Spec          the pass on an annotated image, phase by phase          *)
(*   SpecProp      the clone-set propagator, call edge by call edge        *)
(*   SpecPropFair  SpecProp with its steps taken when enabled              *)
(*   SpecOffsets   emit_offset_table and the link of its table             *)
(*   SpecEntry     runMultiVersioning from its entry through the           *)
(*                 constructor, malformed inputs included                  *)
(*   SpecDump      jl_dump_native_impl around the pass                     *)
(*                 (src/unnamed/part_000)                                  *)
(*   SpecAnalyze   collect_func_info over the functions of a module        *)
(*   SpecConsume   the loop of consume_gv over the function export table   *)
(*   SpecPartition partitionModule (src/unnamed/part_000)                  *)
(***************************************************************************)
EXTENDS Integers, Sequences, FiniteSets, TLC

\* ------------------------------------------------------------- bounds
\* functions of the image
NumFuncs == 3
\* of which at most this many are declarations
MaxDecls == 1
\* targets, the baseline included
MaxTargets == 3
\* size of an image without data symbol and alias (see Init)
MaxImage == 4
\* size of an image with a data symbol or an alias
MaxDataImage == 3
\* function references in the initializer of the data symbol
MaxDataRefs == 2
\* call edges of a call graph the propagator is stepped on (see InitProp)
MaxEdges == 4

Funcs == 1..NumFuncs

Fn(n, t) == <<"f", n, t>>
Orig(n) == Fn(n, 0)
Nil == <<"nil", 0, 0>>
Slot(n, k) == <<"s", n, k>>
AliasGV == <<"a", 1, 0>>
DataGV == <<"d", 1, 0>>
\* what a build without assertions reads through the end() iterator
BadSlot == <<"s", 0, 0>>

\* ------------------------------------------------------------- targets
\* clone_mask, src/src/llvm-multiversioning.cpp:52
clone_mask == {"LOOP", "SIMD", "MATH", "CPU", "FLOAT16"}

IsCloneAll(spec) == "ALL" \in spec.flags

\* The flag sets the enumerated targets carry.
TargetFlagChoices == {{"ALL"}, {"SIMD"}, {"LOOP"}}

\* jl_get_llvm_clone_targets(): index 0 is the baseline; a target without
\* clone_all names as its base target 0 or an earlier clone_all target (the
\* target parser forces the base to be fully cloned); a clone_all target
\* carries base 0.
WellFormedTargets(sp, n) ==
    /\ sp[0] = [flags |-> {}, base |-> 0]
    /\ \A i \in 1..(n - 1) :
        /\ sp[i].flags \in TargetFlagChoices
        /\ IF IsCloneAll(sp[i])
           THEN sp[i].base = 0
           ELSE /\ sp[i].base < i
                /\ (sp[i].base = 0 \/ IsCloneAll(sp[sp[i].base]))

\* The enumerated target lists.  Bodies with a loop and bodies with a vector
\* operation are enumerated alike, so a LOOP target is listed only next to a
\* SIMD target.
TargetLists ==
    UNION { { sp \in [0..(n - 1) -> [flags : TargetFlagChoices \cup {{}}, base : 0..(MaxTargets - 1)]] :
                /\ WellFormedTargets(sp, n)
                /\ \A i \in 1..(n - 1) :
                      sp[i].flags = {"LOOP"} => \E j \in 1..(n - 1) : sp[j].flags = {"SIMD"} }
            : n \in 1..MaxTargets }

NTargets(sp) == Cardinality(DOMAIN sp)

\* ------------------------------------------------------------- analyzer
\* An instruction, as far as collect_func_info reads it:
\*   op    "call" | "store" | "other"
\*   vec   call: the called function type has a vector in it; store: the
\*         stored value is a vector; other: the result type is a vector
\*   name  call: the callee's name class, "muladd" (llvm.muladd.*), "fma"
\*         (llvm.fma.*), "have_fma" (julia.cpu.have_fma.*), "cpu" (another
\*         julia.cpu.*), "none" (any other callee, or no called function)
\*   fast  an FPMathOperator with some fast-math flag
\*   half  some operand has half type
\* Direct calls of functions of the image are kept apart, in the body's
\* refs: they have none of the properties above.
Inst(op, vec, name, fast, half) ==
    [op |-> op, vec |-> vec, name |-> name, fast |-> fast, half |-> half]
VecOp == Inst("other", TRUE, "none", FALSE, FALSE)

\* The flag one instruction adds (lines 92-133) and whether it sets
\* has_veccall; known: always_have_fma(callee).hasValue().
InstFlags(I, known) ==
    (IF I.op = "call" /\ I.vec THEN {"SIMD"} ELSE {})
    \cup (IF I.op = "call" /\ I.name \in {"muladd", "fma"} THEN {"MATH"} ELSE {})
    \cup (IF I.op = "call" /\ I.name = "have_fma" /\ ~known THEN {"CPU"} ELSE {})
    \cup (IF I.op = "call" /\ I.name = "cpu" THEN {"CPU"} ELSE {})
    \cup (IF I.op = "store" /\ I.vec THEN {"SIMD"} ELSE {})
    \cup (IF I.op = "other" /\ I.vec THEN {"SIMD"} ELSE {})
    \cup (IF I.fast THEN {"MATH"} ELSE {})
    \cup (IF I.half THEN {"FLOAT16"} ELSE {})

RECURSIVE ScanInsts(_, _, _, _, _)
ScanInsts(insts, i, flag, has_veccall, known) ==
    IF i > Len(insts)
    THEN [flag |-> flag, has_veccall |-> has_veccall]
    ELSE LET I == insts[i]
             hv == has_veccall \/ (I.op = "call" /\ I.vec)
             fl == flag \cup InstFlags(I, known)
         IN  IF hv /\ "SIMD" \in fl /\ "MATH" \in fl
             THEN [flag |-> fl, has_veccall |-> hv]
             ELSE ScanInsts(insts, i + 1, fl, hv, known)

\* F: a function record with a body.
collect_func_info(F, has_veccall, known) ==
    LET flag0 == (IF F.loop THEN {"LOOP"} ELSE {})
                 \cup (IF F.vec THEN {"SIMD"} ELSE {})
    IN  ScanInsts(F.insts, 1, flag0, has_veccall \/ F.vec, known)

\* ------------------------------------------------------------- propagator
\* ExamineChild with the calling_clone test of lines 192-203 left out
ExamineChildAnyCallee(cg, st, c) ==
    IF c \in st.all
    THEN st
    ELSE [all |-> st.all \cup {c}, next |-> st.next \cup {c}]

\* ExamineChild without the insertion into all_origs of line 205
ExamineChildUnrecorded(cg, st, c) ==
    IF c \in st.all
    THEN st
    ELSE IF \E c2 \in cg[c] : c2 \in st.all
         THEN [all |-> st.all, next |-> st.next \cup {c}]
         ELSE st

\* One pass of the inner loop body (lines 185-205) for child c of the
\* function being visited; cg[f] is the set of functions f calls directly.
ExamineChild(cg, st, c) ==
    IF c \in st.all
    THEN st
    ELSE IF \E c2 \in cg[c] : c2 \in st.all
         THEN [all |-> st.all \cup {c}, next |-> st.next \cup {c}]
         ELSE st

\* Every result of visiting the call edges rem of one frontier function,
\* over the orders the edges can come in.
RECURSIVE VisitEdges(_, _, _)
VisitEdges(cg, st, rem) ==
    IF rem = {}
    THEN {st}
    ELSE UNION { VisitEdges(cg, ExamineChild(cg, st, c), rem \ {c}) : c \in rem }

\* Every result of one round over the frontier todo: std::set<Function*>
\* iterates in address order, which the image does not determine.
RECURSIVE VisitFuncs(_, _, _)
VisitFuncs(cg, st, todo) ==
    IF todo = {}
    THEN {st}
    ELSE UNION { UNION { VisitFuncs(cg, st2, todo \ {f}) : st2 \in VisitEdges(cg, st, cg[f]) }
                 : f \in todo }

RECURSIVE Rounds(_, _, _)
Rounds(cg, all, cur) ==
    IF cur = {}
    THEN {all}
    ELSE UNION { Rounds(cg, st.all, st.next)
                 : st \in VisitFuncs(cg, [all |-> all, next |-> {}], cur) }

\* The sets all_origs the while loop of lines 175-210 can end with.
Closures(cg, seed) == Rounds(cg, seed, seed)

\* ------------------------------------------------------------- constants
\* A constant initializer: a tree of constant expressions and aggregates
\* over pointer-sized leaves.
FnLeaf(n) == [k |-> "fn", f |-> n, ops |-> <<>>]
NullLeaf == [k |-> "null", f |-> 0, ops |-> <<>>]
Cast(t) == [k |-> "cast", f |-> 0, ops |-> <<t>>]
Agg(s) == [k |-> "agg", f |-> 0, ops |-> s]
\* no data symbol in the image
NoInit == [k |-> "none", f |-> 0, ops |-> <<>>]

RECURSIVE SumSeq(_)
SumSeq(s) == IF s = <<>> THEN 0 ELSE Head(s) + SumSeq(Tail(s))

\* the references to function n in t
RECURSIVE RefCount(_, _)
RefCount(t, n) ==
    IF t.k = "fn"
    THEN (IF t.f = n THEN 1 ELSE 0)
    ELSE SumSeq([i \in 1..Len(t.ops) |-> RefCount(t.ops[i], n)])

\* the null leaves of t
RECURSIVE NullCount(_)
NullCount(t) ==
    IF t.k = "null"
    THEN 1
    ELSE SumSeq([i \in 1..Len(t.ops) |-> NullCount(t.ops[i])])

\* the pointer-sized leaves of t
RECURSIVE LeafCount(_)
LeafCount(t) ==
    IF t.k \in {"fn", "null"}
    THEN 1
    ELSE SumSeq([i \in 1..Len(t.ops) |-> LeafCount(t.ops[i])])

\* ConstantUses<GlobalValue>: the operand path, from the initializer down,
\* of the first use of function n in t (t holds one).
RECURSIVE FirstUse(_, _)
FirstUse(t, n) ==
    IF t.k = "fn"
    THEN <<>>
    ELSE LET i == CHOOSE i \in 1..Len(t.ops) :
                    /\ RefCount(t.ops[i], n) > 0
                    /\ \A j \in 1..(i - 1) : RefCount(t.ops[j], n) = 0
         IN  <<i>> \o FirstUse(t.ops[i], n)

\* info.offset, in pointer-sized units: the leaves laid out before the use.
RECURSIVE UseOffset(_, _)
UseOffset(t, path) ==
    IF path = <<>>
    THEN 0
    ELSE SumSeq([j \in 1..(Head(path) - 1) |-> LeafCount(t.ops[j])])
         + UseOffset(t.ops[Head(path)], Tail(path))

\* The initializer rebuilt around a null pointer in place of the use at path.
RECURSIVE rewrite_gv_init(_, _)
rewrite_gv_init(t, path) ==
    IF path = <<>>
    THEN NullLeaf
    ELSE [t EXCEPT !.ops[Head(path)] = rewrite_gv_init(t.ops[Head(path)], Tail(path))]

\* ------------------------------------------------------------- state
VARIABLES
    pc,             \* the phase to run next; "done", "skipped" or "abort" at the end
    specs,          \* jl_get_llvm_clone_targets(): target index -> [flags, base]
    funcs,          \* the functions of the module: global value -> function record
    fnattr,         \* their attributes
    alias,          \* the function the alias AliasGV names; 0: no alias
    gv_init,        \* the initializer of the data symbol DataGV
    veccall,        \* the module flag julia.mv.veccall
    func_infos,     \* annotate_module_clones: the analyzer's bitmask per function
    all_origs,      \* annotate_module_clones: the closed set per subtarget
    groups,         \* CloneCtx::groups, a sequence of [idx, clones]
    fvars,          \* CloneCtx::fvars, the exported functions in table order
    orig_funcs,     \* CloneCtx::orig_funcs
    cloned,         \* CloneCtx::cloned
    vmap,           \* Target::vmap of every target: index -> value map
    slots,          \* the relocation-slot variables created in the module
    const_relocs,   \* CloneCtx::const_relocs: function id -> slot
    extern_relocs,  \* CloneCtx::extern_relocs: function -> slot
    gv_relocs,      \* CloneCtx::gv_relocs, a sequence of <<offset, function id>>
    created,        \* the functions Function::Create made in clone_decls, in order
    clone_slots,    \* jl_clone_slots after its count: <<function id, address>> pairs
    slots_count,    \* the first word of jl_clone_slots, -1 before the table is made
    clone_idxs,     \* jl_clone_idxs
    clone_offsets,  \* jl_clone_offsets, each entry as the function it is the offset of
    prop,           \* the propagator run edge by edge (SpecProp); idle under Spec
    off,            \* the offset table jl_fvar_offsets and its base, see OffIdle
    mod,            \* the module and the build as runMultiVersioning reads them, see ModRec
    dump,           \* jl_dump_native_impl around the pass (SpecDump), see DumpRec
    scan,           \* the analyzer's sweep over orig_funcs (SpecAnalyze), see ScanIdle
    consume,        \* the loop of consume_gv over jl_fvars (SpecConsume), see ConsumeIdle
    part            \* partitionModule (SpecPartition), see PartIdle

vars == <<pc, specs, funcs, fnattr, alias, gv_init, veccall, func_infos, all_origs,
          groups, fvars, orig_funcs, cloned, vmap, slots, const_relocs, extern_relocs,
          gv_relocs, created, clone_slots, slots_count, clone_idxs, clone_offsets, prop, off, mod,
          dump, scan, consume, part>>

image == <<specs, alias, gv_init>>
ctx == <<groups, fvars, orig_funcs, cloned, vmap, slots, const_relocs, extern_relocs,
         gv_relocs, created>>
tables == <<clone_slots, slots_count, clone_idxs, clone_offsets>>

\* A function record.  decl: no body; vec, vararg: the signature holds a
\* vector / is variadic; loop: the body has a natural loop; insts: its
\* instructions (see Inst); refs: the global values its instructions use;
\* tramp: the body is load slot + tail call, with the tail-call kind.
FuncRec(decl, loop, insts, refs) ==
    [decl |-> decl, vec |-> FALSE, vararg |-> FALSE, loop |-> loop, insts |-> insts,
     refs |-> refs, tramp |-> "no"]

\* The attributes this pass reads and writes.  clones: the value of
\* julia.mv.clones, the clone bitmask as a number (the attribute stores it
\* in hexadecimal), -1 when the attribute is absent; reloc, fvar:
\* julia.mv.reloc, julia.mv.fvar; clone: the value of julia.mv.clone, -1
\* when absent; cpu: the target whose target-cpu and target-features were
\* stamped, -1 when none.
NoAttrs == [clones |-> -1, reloc |-> FALSE, fvar |-> FALSE, clone |-> -1, cpu |-> -1]

\* The bodies the enumerated images are built from.
BodyKinds == {"plain", "loop", "vec"}
BodyOf(kind, refs) ==
    FuncRec(FALSE, kind = "loop", IF kind = "vec" THEN <<VecOp>> ELSE <<>>, refs)
DeclRec == FuncRec(TRUE, FALSE, <<>>, {})

\* The initializers the enumerated images hold: a function at offset 0, a
\* cast of a function behind a null pointer, two functions in a nested
\* aggregate.
FnLeaves == {FnLeaf(n) : n \in Funcs}
RefTotal(t) == SumSeq([n \in Funcs |-> RefCount(t, n)])
DataInits ==
    { t \in {Agg(<<a>>) : a \in FnLeaves}
            \cup {Agg(<<NullLeaf, Cast(a)>>) : a \in FnLeaves}
            \cup {Agg(<<Agg(<<a, b>>)>>) : a \in FnLeaves, b \in FnLeaves} :
        RefTotal(t) <= MaxDataRefs }

Defined(fs) == {n \in Funcs : ~fs[Orig(n)].decl}

\* The size of an image: its declarations, its bodies with a loop or a
\* vector operation, its call sites, its data references, its alias, and
\* one more where the aliased function is variadic.
KindSize(decls, kinds) ==
    Cardinality(decls) + Cardinality({n \in Funcs : kinds[n] # "plain"})
RefSize(al, init) == RefTotal(init) + (IF al = 0 THEN 0 ELSE 1)

CallSets(decls, k) ==
    {C \in SUBSET ((Funcs \ decls) \X Funcs) : Cardinality(C) <= k}

ImageFuncs(decls, kinds, calls) ==
    [g \in {Orig(n) : n \in Funcs} |->
        IF g[2] \in decls
        THEN DeclRec
        ELSE BodyOf(kinds[g[2]], {Orig(c) : c \in {d \in Funcs : <<g[2], d>> \in calls}})]

\* prop: the call graph as the callee list of every function, in call-site
\* order (cg); sets[0] as first filled (seed); all_origs (all); *cur_set and
\* *next_set (cur, next); the function of cur_set being visited and the
\* index of its next call edge (f, k; f = 0 between rounds); which run of
\* the loop this is (run) and what the first run ended with (first).
PropIdle ==
    [cg |-> [n \in Funcs |-> <<>>], seed |-> {}, all |-> {}, cur |-> {}, next |-> {},
     f |-> 0, k |-> 0, run |-> 0, first |-> {}]

\* jl_dump_native_impl as far as it schedules the pass.  imaging:
\* imaging_mode; outs: the outputs asked for, of "unopt", "opt", "obj" and
\* "asm", at least one; threads: the
\* thread count; annotated: multiversioning_preannotate has returned;
\* partitioned: partitionModule has returned; emitted: the pass has run to
\* the end of emit_metadata on the module handed to add_output; shard: what
\* worker i has done last, "none" before the workers are started.
DumpRec(imaging, outs) ==
    [imaging |-> imaging, outs |-> outs, threads |-> 1, annotated |-> FALSE,
     partitioned |-> FALSE, emitted |-> FALSE, shard |-> <<>>]

DumpIdle == DumpRec(FALSE, {"obj"})

\* The module and the build as runMultiVersioning and the constructor read
\* them.  name: the module's name; allow_bad_fvars: the relaxed mode;
\* jl_fvars, jl_gvars: the export table variables, each "missing", "noinit"
\* (no initializer), "notarray" (an initializer that is no ConstantArray),
\* "array", or "erased" once consume_gv took it; ndebug: assert is compiled
\* out; changed: what runMultiVersioning returned, "true" or "false", "none"
\* before it returns.
ModRec(name, relaxed, fv, gv, ndebug) ==
    [name |-> name, allow_bad_fvars |-> relaxed, jl_fvars |-> fv, jl_gvars |-> gv,
     ndebug |-> ndebug, changed |-> "none"]

\* the module the code generator hands to the pass in the strict mode
ModStrict == ModRec("text", FALSE, "array", "array", FALSE)

\* The offset table before it is emitted.  wide: size_t has more bits than
\* a table word (sizeof(void*) == 8); addr: the address the link gives each
\* symbol; base: the symbol jl_fvar_base names; offsets: the initializer of
\* jl_fvar_offsets, constant expressions; values: the words they link to.
OffIdle ==
    [wide |-> FALSE, addr |-> [g \in {} |-> 0], base |-> Nil, offsets |-> <<>>, values |-> <<>>]

\* The analyzer's sweep of lines 156-159.  of: orig_funcs, the functions
\* with a body in module order; j: the index in of of the function analyzed
\* next, from 1; has_veccall: the flag every call of collect_func_info
\* shares; known: always_have_fma(callee).hasValue() on the target built for.
ScanIdle == [of |-> <<>>, j |-> 0, has_veccall |-> FALSE, known |-> FALSE]

\* The loop of consume_gv (lines 342-352) on jl_fvars.  ops: the operands
\* of the initializer after stripPointerCasts, global values; i, nele: the
\* loop's variables; res: the vector returned, with Nil where nothing was
\* stored yet; relaxed: allow_bad_fvars.
ConsumeIdle == [ops |-> <<>>, i |-> 0, nele |-> 0, res |-> <<>>, relaxed |-> FALSE]

\* partitionModule (src/unnamed/part_000).  gvs: the global values of the
\* module, see GlobalRec; ftab, gtab: the operands of jl_fvars and jl_gvars;
\* threads: the number of partitions asked for; debug: a build with
\* JL_DEBUG_BUILD and assertions; fvars, gvars: the maps get_fvars_gvars
\* fills; nodes, node_map: the Partitioner's, nodes numbered from 0; i: the
\* node whose uses are merged next; idxs: the node numbers as sorted; idx:
\* the place in idxs assigned next; partitions: the Partition records,
\* numbered from 0.
PartIdle ==
    [gvs |-> [g \in {} |-> 0], ftab |-> <<>>, gtab |-> <<>>, threads |-> 1, debug |-> FALSE,
     fvars |-> [g \in {} |-> 0], gvars |-> [g \in {} |-> 0],
     nodes |-> [n \in {} |-> 0], node_map |-> [g \in {} |-> 0], i |-> 0,
     idxs |-> <<>>, idx |-> 0, partitions |-> [q \in {} |-> 0]]

\* The enumerated images: those without data symbol and alias, of size at
\* most MaxImage, and those with one of them, of size at most MaxDataImage.
\* Only the function an alias names is variadic.
Init ==
    /\ pc = "annotate"
    /\ specs \in TargetLists
    /\ \E decls \in {D \in SUBSET Funcs : Cardinality(D) <= MaxDecls} :
       \E kinds \in {k \in [Funcs -> BodyKinds] : \A n \in decls : k[n] = "plain"} :
          \/ /\ alias = 0
             /\ gv_init = NoInit
             /\ \E calls \in CallSets(decls, MaxImage - KindSize(decls, kinds)) :
                    funcs = ImageFuncs(decls, kinds, calls)
          \/ /\ KindSize(decls, kinds) < MaxDataImage
             /\ \E calls \in CallSets(decls, MaxDataImage - 1 - KindSize(decls, kinds)) :
                    /\ alias \in {0} \cup (Funcs \ decls)
                    /\ gv_init \in {NoInit} \cup DataInits
                    /\ RefSize(alias, gv_init) >= 1
                    /\ \E va \in BOOLEAN :
                          /\ va => alias # 0
                          /\ KindSize(decls, kinds) + Cardinality(calls)
                                + RefSize(alias, gv_init) + (IF va THEN 1 ELSE 0)
                                <= MaxDataImage
                          /\ funcs = [g \in {Orig(n) : n \in Funcs} |->
                                        [ImageFuncs(decls, kinds, calls)[g] EXCEPT
                                            !.vararg = (va /\ g[2] = alias)]]
    /\ fnattr = [g \in {Orig(n) : n \in Funcs} |-> NoAttrs]
    /\ veccall = FALSE
    /\ func_infos = [n \in Funcs |-> {}]
    /\ all_origs = [i \in {} |-> {}]
    /\ groups = <<>>
    /\ fvars = <<>>
    /\ orig_funcs = <<>>
    /\ cloned = {}
    /\ vmap = [i \in {} |-> <<>>]
    /\ slots = <<>>
    /\ const_relocs = [i \in {} |-> Nil]
    /\ extern_relocs = [i \in {} |-> Nil]
    /\ gv_relocs = <<>>
    /\ created = <<>>
    /\ clone_slots = <<>>
    /\ slots_count = -1
    /\ clone_idxs = <<>>
    /\ clone_offsets = <<>>
    /\ scan = ScanIdle
    /\ consume = ConsumeIdle
    /\ part = PartIdle
    /\ prop = PropIdle
    /\ off = OffIdle
    /\ mod = ModStrict
    /\ dump = DumpIdle

\* ------------------------------------------------------------- helpers
EmptyMap == [x \in {} |-> Nil]
MapPut(m, k, v) == [x \in DOMAIN m \cup {k} |-> IF x = k THEN v ELSE m[x]]
\* ValueToValueMapTy::lookup: null for a missing key
Lookup(m, k) == IF k \in DOMAIN m THEN m[k] ELSE Nil
\* map_get (lines 58-65): an identity entry counts as missing
map_get(m, k, def) ==
    LET val == Lookup(m, k)
    IN  IF val = Nil \/ k = val THEN def ELSE val

RECURSIVE Pow2(_)
Pow2(i) == IF i = 0 THEN 1 ELSE 2 * Pow2(i - 1)
\* APInt::setBit, APInt::operator[] on the bitmask held as a number
TestBit(bits, i) == (bits \div Pow2(i)) % 2 = 1
SetBit(bits, i) == IF TestBit(bits, i) THEN bits ELSE bits + Pow2(i)

HasBody(fs, g) == g \in DOMAIN fs /\ ~fs[g].decl

\* the functions of the module with a body, in module order (lines 144-149)
RECURSIVE DefinedSeq(_, _)
DefinedSeq(fs, n) ==
    IF n > NumFuncs
    THEN <<>>
    ELSE (IF HasBody(fs, Orig(n)) THEN <<n>> ELSE <<>>) \o DefinedSeq(fs, n + 1)

\* CallGraph(M): the functions each function calls directly
CallGraph(fs) ==
    [n \in Funcs |-> IF HasBody(fs, Orig(n))
                     THEN {c \in Funcs : Orig(c) \in fs[Orig(n)].refs}
                     ELSE {}]

\* ConstantUses<Instruction>(F, M) is not done: some instruction uses F
HasInstUse(fs, F) == \E g \in DOMAIN fs : F \in fs[g].refs

\* ------------------------------------------------------------- annotate
\* lines 156-159: the analyzer over orig_funcs, has_veccall shared
RECURSIVE AnalyzeFrom(_, _, _, _)
AnalyzeFrom(fs, of, j, acc) ==
    IF j > Len(of)
    THEN acc
    ELSE LET r == collect_func_info(fs[Orig(of[j])], acc.has_veccall, FALSE)
         IN  AnalyzeFrom(fs, of, j + 1,
                         [infos |-> [acc.infos EXCEPT ![of[j]] = r.flag],
                          has_veccall |-> r.has_veccall])

SubTargets(sp) == {i \in DOMAIN sp : i > 0 /\ ~IsCloneAll(sp[i])}
FullTargets(sp) == {i \in DOMAIN sp : i > 0 /\ IsCloneAll(sp[i])}

\* lines 167-174: sets[0]
SeedSet(sp, i, infos, of) ==
    {n \in {of[j] : j \in 1..Len(of)} : infos[n] \cap (sp[i].flags \cap clone_mask) # {}}

\* CloneBit with the clone_all branch of lines 161-165 left out
CloneBitSubtargetsOnly(sp, ao, n, i) == ~IsCloneAll(sp[i]) /\ n \in ao[i]

\* CloneBit with the test of line 212 left out
CloneBitEveryTarget(sp, ao, n, i) == TRUE

\* lines 161-163 and 211-214: whether clones[j].setBit(i) runs for function n
CloneBit(sp, ao, n, i) == IsCloneAll(sp[i]) \/ n \in ao[i]

\* lines 160-217: clones[j] as a number, for function n of orig_funcs
RECURSIVE CloneBits(_, _, _, _)
CloneBits(sp, ao, n, i) ==
    IF i = 0
    THEN 0
    ELSE LET rest == CloneBits(sp, ao, n, i - 1)
         IN  IF CloneBit(sp, ao, n, i) THEN SetBit(rest, i) ELSE rest

\* lines 219-242: the relocation attributes of function n
RelocAttrs(sp, fs, al, init, ao, n) ==
    LET check_relocs == FullTargets(sp) # {}
        subtarget_cloned == \E i \in SubTargets(sp) : n \in ao[i]
    IN  IF ~check_relocs
        THEN [reloc |-> FALSE, fvar |-> FALSE]
        ELSE IF subtarget_cloned /\ HasInstUse(fs, Orig(n))
        THEN [reloc |-> TRUE, fvar |-> FALSE]
        ELSE IF al = n
        THEN [reloc |-> TRUE, fvar |-> FALSE]
        ELSE IF RefCount(init, n) > 0
        THEN [reloc |-> FALSE, fvar |-> TRUE]
        ELSE [reloc |-> FALSE, fvar |-> FALSE]

\* the functions over S that pick ao[i] in sets[i]
RECURSIVE Choices(_, _)
Choices(S, sets) ==
    IF S = {}
    THEN {EmptyMap}
    ELSE LET i == CHOOSE i \in S : TRUE
         IN  {MapPut(m, i, c) : m \in Choices(S \ {i}, sets), c \in sets[i]}

annotate_module_clones ==
    /\ pc = "annotate"
    /\ LET of == DefinedSeq(funcs, 1)
           an == AnalyzeFrom(funcs, of, 1, [infos |-> [n \in Funcs |-> {}], has_veccall |-> FALSE])
           cg == CallGraph(funcs)
           n_targets == NTargets(specs)
           closed == [i \in SubTargets(specs) |->
                        Closures(cg, SeedSet(specs, i, an.infos, of))]
       IN  \E ao \in Choices(SubTargets(specs), closed) :
              /\ all_origs' = ao
              /\ func_infos' = an.infos
              /\ veccall' = (veccall \/ an.has_veccall)
              /\ fnattr' = [g \in DOMAIN fnattr |->
                              IF HasBody(funcs, g)
                              THEN LET bits == CloneBits(specs, ao, g[2], n_targets - 1)
                                       ra == RelocAttrs(specs, funcs, alias, gv_init, ao, g[2])
                                   IN  [fnattr[g] EXCEPT
                                          !.clones = IF bits = 0 THEN -1 ELSE bits,
                                          !.reloc = ra.reloc,
                                          !.fvar = ra.fvar]
                              ELSE fnattr[g]]
    /\ pc' = "ctor"
    /\ UNCHANGED <<prop, scan, consume, part, dump, off, mod, tables, funcs, image, ctx>>

\* ------------------------------------------------------------- CloneCtx
\* lines 370-386: the groups after targets 1..i-1; gids is group_ids.  A
\* group's place in the list is its index in this sequence minus one.
RECURSIVE GroupFold(_, _, _, _)
GroupFold(sp, i, gs, gids) ==
    IF i >= NTargets(sp)
    THEN gs
    ELSE IF IsCloneAll(sp[i])
         THEN GroupFold(sp, i + 1, Append(gs, [idx |-> i, clones |-> <<>>]),
                        [gids EXCEPT ![i] = Len(gs)])
         ELSE LET gid == gids[sp[i].base]
              IN  GroupFold(sp, i + 1,
                            [gs EXCEPT ![gid + 1].clones = Append(@, i)],
                            [gids EXCEPT ![i] = gid])

\* BuildGroups with every subtarget put under the baseline
BuildGroupsUnderBaseline(sp) ==
    GroupFold([i \in DOMAIN sp |-> [sp[i] EXCEPT !.base = 0]], 1,
              <<[idx |-> 0, clones |-> <<>>]>>, [i \in DOMAIN sp |-> 0])

BuildGroups(sp) ==
    GroupFold(sp, 1, <<[idx |-> 0, clones |-> <<>>]>>, [i \in DOMAIN sp |-> 0])

\* linearized[i] taken as a Group: the group whose root is target i
GroupOf(gs, i) == gs[CHOOSE p \in 1..Len(gs) : gs[p].idx = i]

\* lines 395-399: orig_funcs, in module order
RECURSIVE OrigFuncsFrom(_, _, _)
OrigFuncsFrom(fs, fa, n) ==
    IF n > NumFuncs
    THEN <<>>
    ELSE (IF fs[Orig(n)].decl /\ fa[Orig(n)].clones = -1 THEN <<>> ELSE <<Orig(n)>>)
         \o OrigFuncsFrom(fs, fa, n + 1)

\* consume_gv (lines 325-359) on jl_fvars: the exported functions, which
\* are the functions with a body, in table order
ExportedFuncs(fs) == [j \in 1..Len(DefinedSeq(fs, 1)) |-> Orig(DefinedSeq(fs, 1)[j])]

\* get_func_id (lines 531-536): the 0-based index in fvars
get_func_id(fv, F) == (CHOOSE j \in 1..Len(fv) : fv[j] = F) - 1

\* line 382: the base of every subtarget is an earlier target
BasesInOrder(sp) ==
    \A i \in DOMAIN sp : (i > 0 /\ ~IsCloneAll(sp[i])) => (0 <= sp[i].base /\ sp[i].base < i)

\* line 383 reads group_ids inside the vector for every subtarget
BasesInRange(sp) ==
    \A i \in DOMAIN sp : (i > 0 /\ ~IsCloneAll(sp[i])) => sp[i].base \in DOMAIN sp

\* sp with r for every base that line 383 reads outside the vector
Redirect(sp, r) ==
    [i \in DOMAIN sp |->
        IF i > 0 /\ ~IsCloneAll(sp[i]) /\ sp[i].base \notin DOMAIN sp
        THEN [sp[i] EXCEPT !.base = r]
        ELSE sp[i]]

\* The constructor (lines 362-400).  The member initializers run first:
\* consume_gv erases jl_fvars and jl_gvars (line 355).  The body then
\* groups the targets.  A base that is no earlier target fails the assert
\* of line 382; without assertions line 383 reads group_ids at the base: 0
\* inside the vector, as no later target has its group yet, and outside
\* the vector whatever the memory holds, which either names a group there
\* is or makes line 384 write outside the groups.
CloneCtx_ctor ==
    /\ pc = "ctor"
    /\ mod' = [mod EXCEPT !.jl_fvars = "erased", !.jl_gvars = "erased"]
    /\ \/ /\ BasesInOrder(specs) \/ (mod.ndebug /\ BasesInRange(specs))
          /\ groups' = BuildGroups(specs)
          /\ fvars' = ExportedFuncs(funcs)
          /\ orig_funcs' = OrigFuncsFrom(funcs, fnattr, 1)
          /\ vmap' = [i \in DOMAIN specs |-> EmptyMap]
          /\ pc' = "prepare_slots"
       \/ /\ mod.ndebug /\ ~BasesInRange(specs)
          /\ \E r \in {0} \cup FullTargets(specs) :
                groups' = BuildGroups(Redirect(specs, r))
          /\ fvars' = ExportedFuncs(funcs)
          /\ orig_funcs' = OrigFuncsFrom(funcs, fnattr, 1)
          /\ vmap' = [i \in DOMAIN specs |-> EmptyMap]
          /\ pc' = "prepare_slots"
       \/ /\ ~BasesInOrder(specs)
          /\ ~mod.ndebug \/ ~BasesInRange(specs)
          /\ pc' = "abort"
          /\ UNCHANGED <<groups, fvars, orig_funcs, vmap>>
    /\ UNCHANGED <<prop, scan, consume, part, dump, off, tables, funcs, fnattr, veccall, func_infos, all_origs, image, cloned, slots,
                   const_relocs, extern_relocs, gv_relocs, created>>

\* ------------------------------------------------------------- prepare_slots
\* lines 418-431, from orig_funcs[j] on
RECURSIVE PrepareFrom(_, _, _, _, _)
PrepareFrom(fs, fa, fv, of, st) ==
    IF of = <<>>
    THEN st
    ELSE LET F == Head(of)
             GV == Slot(F[2], Len(st.slots) + 1)
         IN  IF ~fa[F].reloc
             THEN PrepareFrom(fs, fa, fv, Tail(of), st)
             ELSE IF fs[F].decl
             THEN PrepareFrom(fs, fa, fv, Tail(of),
                              [st EXCEPT !.slots = Append(@, GV),
                                         !.extern_relocs = MapPut(@, F, GV)])
             ELSE PrepareFrom(fs, fa, fv, Tail(of),
                              [st EXCEPT !.slots = Append(@, GV),
                                         !.const_relocs = MapPut(@, get_func_id(fv, F), GV)])

prepare_slots ==
    /\ pc = "prepare_slots"
    /\ LET st == PrepareFrom(funcs, fnattr, fvars, orig_funcs,
                             [slots |-> slots, const_relocs |-> const_relocs,
                              extern_relocs |-> extern_relocs])
       IN  /\ slots' = st.slots
           /\ const_relocs' = st.const_relocs
           /\ extern_relocs' = st.extern_relocs
    /\ pc' = "clone_decls"
    /\ UNCHANGED <<prop, scan, consume, part, dump, off, mod, tables, funcs, fnattr, veccall, func_infos, all_origs, image, groups, fvars,
                   orig_funcs, cloned, vmap, gv_relocs, created>>

\* ------------------------------------------------------------- clone_decls
\* Group::base_func (lines 273-278); vm is the vmap of every target
base_func(grp, vm, orig_f) ==
    IF grp.idx = 0 THEN orig_f ELSE Lookup(vm[grp.idx], orig_f)

\* lines 448-454 for function F and target i; st = [funcs, fnattr, vmap, created]
CloneDecl(sp, gs, F, i, st) ==
    LET new_F == Fn(F[2], i)
        key == IF IsCloneAll(sp[i])
               THEN base_func(GroupOf(gs, sp[i].base), st.vmap, F)
               ELSE F
    IN  [funcs |-> MapPut(st.funcs, new_F, [st.funcs[F] EXCEPT !.decl = TRUE, !.loop = FALSE,
                                                               !.insts = <<>>, !.refs = {}]),
         fnattr |-> MapPut(st.fnattr, new_F, st.fnattr[F]),
         vmap |-> [st.vmap EXCEPT ![i] = MapPut(@, key, new_F)],
         created |-> Append(st.created, new_F)]

\* lines 444-455: the targets i.. of function F
RECURSIVE CloneDeclTargets(_, _, _, _, _)
CloneDeclTargets(sp, gs, F, i, st) ==
    IF i >= NTargets(sp)
    THEN st
    ELSE CloneDeclTargets(sp, gs, F, i + 1,
                          IF TestBit(st.fnattr[F].clones, i)
                          THEN CloneDecl(sp, gs, F, i, st)
                          ELSE st)

\* lines 440-456
RECURSIVE CloneDeclsFrom(_, _, _, _)
CloneDeclsFrom(sp, gs, of, st) ==
    IF of = <<>>
    THEN st
    ELSE CloneDeclsFrom(sp, gs, Tail(of),
                        IF st.fnattr[Head(of)].clones = -1
                        THEN st
                        ELSE CloneDeclTargets(sp, gs, Head(of), 1, st))

clone_decls ==
    /\ pc = "clone_decls"
    /\ LET st == CloneDeclsFrom(specs, groups, orig_funcs,
                                [funcs |-> funcs, fnattr |-> fnattr, vmap |-> vmap,
                                 created |-> created])
       IN  /\ funcs' = st.funcs
           /\ fnattr' = st.fnattr
           /\ vmap' = st.vmap
           /\ created' = st.created
    /\ pc' = "clone_bodies"
    /\ UNCHANGED <<prop, scan, consume, part, dump, off, mod, tables, veccall, func_infos, all_origs, image, groups, fvars, orig_funcs, cloned,
                   slots, const_relocs, extern_relocs, gv_relocs>>

\* ------------------------------------------------------------- clone_bodies
\* clone_function (lines 459-473): CloneFunctionInto gives new_f the body
\* of F with every global the value map maps replaced, the attributes of F,
\* and enters an identity mapping for every global it met that the map
\* did not hold.  st = [funcs, fnattr, vmap]; t: the target that owns vmap.
clone_function(st, F, new_f, t) ==
    LET vm == st.vmap[t]
        body == st.funcs[F]
        missing == body.refs \ DOMAIN vm
    IN  [funcs |-> [st.funcs EXCEPT ![new_f] =
                       [body EXCEPT !.refs = {IF r \in DOMAIN vm THEN vm[r] ELSE r : r \in body.refs}]],
         fnattr |-> [st.fnattr EXCEPT ![new_f] = st.fnattr[F]],
         vmap |-> [st.vmap EXCEPT ![t] =
                      [x \in DOMAIN vm \cup missing |-> IF x \in DOMAIN vm THEN vm[x] ELSE x]]]

\* add_features (lines 475-496), as the target whose cpu and features it stamps
add_features(st, F, t) == [st EXCEPT !.fnattr[F].cpu = t]

\* CloneTargetBody with the original function as the source of line 514
CloneTargetBodyFromOriginal(gs, st, F, group_F, i, t) ==
    LET target_F == map_get(st.vmap[t], F, Nil)
    IN  IF target_F = Nil
        THEN st
        ELSE LET st1 == IF ~st.funcs[F].decl
                        THEN clone_function(st, F, target_F, t)
                        ELSE st
                 st2 == add_features(st1, target_F, t)
             IN  [st2 EXCEPT !.fnattr[target_F].clone = i]

\* lines 509-520 for one target of groups[i] (i: the group's place, from 0)
CloneTargetBody(gs, st, F, group_F, i, t) ==
    LET target_F == map_get(st.vmap[t], F, Nil)
    IN  IF target_F = Nil
        THEN st
        ELSE LET st1 == IF ~st.funcs[F].decl
                        THEN clone_function(st, group_F, target_F, t)
                        ELSE st
                 st2 == add_features(st1, target_F, t)
             IN  [st2 EXCEPT !.fnattr[target_F].clone = i]

RECURSIVE CloneTargetBodies(_, _, _, _, _, _)
CloneTargetBodies(gs, st, F, group_F, i, ts) ==
    IF ts = <<>>
    THEN st
    ELSE CloneTargetBodies(gs, CloneTargetBody(gs, st, F, group_F, i, Head(ts)),
                           F, group_F, i, Tail(ts))

\* CloneGroupBody with the julia.mv.clone tag of line 526 left out
CloneGroupBodyUntagged(gs, st, F, i) ==
    LET grp == gs[i + 1]
        group_F == IF i = 0 THEN F ELSE base_func(grp, st.vmap, F)
        st1 == IF i # 0 /\ ~st.funcs[F].decl
               THEN clone_function(st, F, group_F, grp.idx)
               ELSE st
        st2 == CloneTargetBodies(gs, st1, F, group_F, i, grp.clones)
    IN  IF i # 0 THEN add_features(st2, group_F, grp.idx) ELSE st2

\* lines 501-527 for function F and the group at place i
CloneGroupBody(gs, st, F, i) ==
    LET grp == gs[i + 1]
        group_F == IF i = 0 THEN F ELSE base_func(grp, st.vmap, F)
        st1 == IF i # 0 /\ ~st.funcs[F].decl
               THEN clone_function(st, F, group_F, grp.idx)
               ELSE st
        st2 == CloneTargetBodies(gs, st1, F, group_F, i, grp.clones)
        st3 == IF i # 0 THEN add_features(st2, group_F, grp.idx) ELSE st2
    IN  [st3 EXCEPT !.fnattr[group_F].clone = i]

RECURSIVE CloneGroupBodies(_, _, _, _)
CloneGroupBodies(gs, st, F, i) ==
    IF i >= Len(gs)
    THEN st
    ELSE CloneGroupBodies(gs, CloneGroupBody(gs, st, F, i), F, i + 1)

RECURSIVE CloneBodiesFrom(_, _, _)
CloneBodiesFrom(gs, of, st) ==
    IF of = <<>>
    THEN st
    ELSE CloneBodiesFrom(gs, Tail(of), CloneGroupBodies(gs, st, Head(of), 0))

clone_bodies ==
    /\ pc = "clone_bodies"
    /\ LET st == CloneBodiesFrom(groups, orig_funcs,
                                 [funcs |-> funcs, fnattr |-> fnattr, vmap |-> vmap])
       IN  /\ funcs' = st.funcs
           /\ fnattr' = st.fnattr
           /\ vmap' = st.vmap
    /\ pc' = "fix_gv_uses"
    /\ UNCHANGED <<prop, scan, consume, part, dump, off, mod, tables, veccall, func_infos, all_origs, image, groups, fvars, orig_funcs, cloned,
                   slots, const_relocs, extern_relocs, gv_relocs, created>>

\* ------------------------------------------------------------- fix_gv_uses
\* What a failed lookup in get_reloc_slot leads to: the assertion stops an
\* assert build ("stop"); a build without assertions reads the slot through
\* end(), which is undefined: it stops as well, or goes on with whatever
\* pointer it read, a garbage one ("garbage") or a null one ("null").
OnMissing == {"stop", "garbage", "null"}

\* get_reloc_slot (lines 659-671): the slot found, Nil when the map has none
get_reloc_slot(fs, fv, cr, er, F) ==
    IF fs[F].decl THEN Lookup(er, F) ELSE Lookup(cr, get_func_id(fv, F))

\* rewrite_alias (lines 582-620); st = [funcs, fnattr, alias, gv_init,
\* gv_relocs, abort]; arch: "arm" where musttail is not supported
rewrite_alias(st, fv, cr, er, F, miss, arch) ==
    LET found == get_reloc_slot(st.funcs, fv, cr, er, F)
        slot == IF found = Nil THEN BadSlot ELSE found
        kind == IF st.funcs[F].vararg THEN "musttail" ELSE "tail"
        trampoline == [decl |-> FALSE, vec |-> st.funcs[F].vec,
                       vararg |-> st.funcs[F].vararg, loop |-> FALSE, insts |-> <<>>,
                       refs |-> {slot}, tramp |-> kind]
        st1 == [st EXCEPT !.alias = 0, !.fnattr = MapPut(@, AliasGV, st.fnattr[F])]
    IN  IF (found = Nil /\ miss # "garbage") \/ (st.funcs[F].vararg /\ arch = "arm")
        THEN [st1 EXCEPT !.abort = TRUE]
        ELSE [st1 EXCEPT !.funcs = MapPut(@, AliasGV, trampoline)]

\* single_pass run once, without the while loop of lines 654-655
single_passOnce(st, fv, cr, er, orig_f, miss, arch) ==
    IF st.abort
    THEN st
    ELSE IF st.alias = orig_f[2]
    THEN rewrite_alias(st, fv, cr, er, orig_f, miss, arch)
    ELSE IF RefCount(st.gv_init, orig_f[2]) > 0
    THEN LET path == FirstUse(st.gv_init, orig_f[2])
             fid == get_func_id(fv, orig_f)
         IN  [st EXCEPT
                !.gv_relocs = Append(@, <<UseOffset(st.gv_init, path), fid>>),
                !.gv_init = rewrite_gv_init(st.gv_init, path)]
    ELSE st

\* single_pass (lines 624-650) until it changes nothing: the alias, then
\* the uses in the initializer from the first on
RECURSIVE single_pass(_, _, _, _, _, _, _)
single_pass(st, fv, cr, er, orig_f, miss, arch) ==
    IF st.abort
    THEN st
    ELSE IF st.alias = orig_f[2]
    THEN single_pass(rewrite_alias(st, fv, cr, er, orig_f, miss, arch),
                     fv, cr, er, orig_f, miss, arch)
    ELSE IF RefCount(st.gv_init, orig_f[2]) > 0
    THEN LET path == FirstUse(st.gv_init, orig_f[2])
             fid == get_func_id(fv, orig_f)
         IN  single_pass([st EXCEPT
                            !.gv_relocs = Append(@, <<UseOffset(st.gv_init, path), fid>>),
                            !.gv_init = rewrite_gv_init(st.gv_init, path)],
                         fv, cr, er, orig_f, miss, arch)
    ELSE st

\* lines 651-656
RECURSIVE FixGvUsesFrom(_, _, _, _, _, _, _, _, _)
FixGvUsesFrom(st, gs, cl, fv, cr, er, of, miss, arch) ==
    IF of = <<>>
    THEN st
    ELSE FixGvUsesFrom(IF Len(gs) = 1 /\ Head(of) \notin cl
                       THEN st
                       ELSE single_pass(st, fv, cr, er, Head(of), miss, arch),
                       gs, cl, fv, cr, er, Tail(of), miss, arch)

fix_gv_uses ==
    /\ pc = "fix_gv_uses"
    /\ \E st \in { FixGvUsesFrom([funcs |-> funcs, fnattr |-> fnattr, alias |-> alias,
                                  gv_init |-> gv_init, gv_relocs |-> gv_relocs,
                                  abort |-> FALSE],
                                 groups, cloned, fvars, const_relocs, extern_relocs,
                                 orig_funcs, miss, arch)
                   : miss \in OnMissing, arch \in {"x86", "arm"} } :
          /\ funcs' = st.funcs
          /\ fnattr' = st.fnattr
          /\ alias' = st.alias
          /\ gv_init' = st.gv_init
          /\ gv_relocs' = st.gv_relocs
          /\ pc' = IF st.abort THEN "abort" ELSE "fix_inst_uses"
    /\ UNCHANGED <<prop, scan, consume, part, dump, off, mod, tables, specs, veccall, func_infos, all_origs, groups, fvars, orig_funcs, cloned,
                   vmap, slots, const_relocs, extern_relocs, created>>

\* ------------------------------------------------------------- fix_inst_uses
\* Group::has_subtarget_clone (lines 280-288)
has_subtarget_clone(grp, vm, orig_f) ==
    LET base == base_func(grp, vm, orig_f)
    IN  \E j \in 1..Len(grp.clones) : map_get(vm[grp.clones[j]], base, Nil) # Nil

\* the functions holding an instruction use of F that should_replace
\* (lines 733-741) accepts for group grp
ReplacedUsers(fs, fa, grp, F) ==
    {g \in DOMAIN fs : F \in fs[g].refs /\ fa[g].clone # -1 /\ fa[g].clone = grp.idx}

\* replaceUsesWithLoad (lines 990-1012): every accepted use of F loads slot;
\* a null slot from should_replace leaves the use alone (lines 997-999)
replaceUsesWithLoad(fs, users, F, slot) ==
    [g \in DOMAIN fs |->
        IF g \in users
        THEN [fs[g] EXCEPT !.refs = (@ \ {F}) \cup {slot}]
        ELSE fs[g]]

\* lines 727-742 for one group and one function; st = [funcs, abort]
FixInstUse(st, fa, vm, fv, cr, er, grp, orig_f, miss) ==
    IF st.abort \/ ~has_subtarget_clone(grp, vm, orig_f)
    THEN st
    ELSE LET F == base_func(grp, vm, orig_f)
             users == ReplacedUsers(st.funcs, fa, grp, F)
             found == get_reloc_slot(st.funcs, fv, cr, er, orig_f)
         IN  IF users = {}
             THEN st
             ELSE IF found = Nil /\ miss = "stop"
             THEN [st EXCEPT !.abort = TRUE]
             ELSE IF found = Nil /\ miss = "null"
             THEN st
             ELSE [st EXCEPT !.funcs = replaceUsesWithLoad(@, users, F,
                                           IF found = Nil THEN BadSlot ELSE found)]

RECURSIVE FixInstFuncs(_, _, _, _, _, _, _, _, _)
FixInstFuncs(st, fa, vm, fv, cr, er, grp, of, miss) ==
    IF of = <<>>
    THEN st
    ELSE FixInstFuncs(FixInstUse(st, fa, vm, fv, cr, er, grp, Head(of), miss),
                      fa, vm, fv, cr, er, grp, Tail(of), miss)

RECURSIVE FixInstGroups(_, _, _, _, _, _, _, _, _)
FixInstGroups(st, fa, vm, fv, cr, er, gs, of, miss) ==
    IF gs = <<>>
    THEN st
    ELSE FixInstGroups(FixInstFuncs(st, fa, vm, fv, cr, er, Head(gs), of, miss),
                       fa, vm, fv, cr, er, Tail(gs), of, miss)

fix_inst_uses ==
    /\ pc = "fix_inst_uses"
    /\ \E st \in { FixInstGroups([funcs |-> funcs, abort |-> FALSE], fnattr, vmap, fvars,
                                 const_relocs, extern_relocs, groups, orig_funcs, miss)
                   : miss \in OnMissing } :
          /\ funcs' = st.funcs
          /\ pc' = IF st.abort THEN "abort" ELSE "emit_metadata"
    /\ UNCHANGED <<prop, scan, consume, part, dump, off, mod, tables, fnattr, veccall, func_infos, all_origs, image, ctx>>

\* ------------------------------------------------------------- emit_metadata
\* A 32-bit index word, kept as <<top bit, low 31 bits>>: jl_sysimg_tag_mask
\* is the top bit.
Word(tag, low) == <<tag, low>>

\* The widths, in bits, of size_t on a 64-bit build and of a table word,
\* scaled down from 64 and 32; on a 32-bit build size_t has the width of a
\* table word.
PtrBits == 5
OffsetBits == 3
SizeBits(wide) == IF wide THEN PtrBits ELSE OffsetBits

\* Constant expressions: ConstantInt::get(T_int32, v); getSub of two
\* ptrtoint; getTrunc to Int32 of an expression.
IntC(v) == [k |-> "int", v |-> v, p |-> Nil, b |-> Nil, trunc |-> FALSE]
SubC(p, b) == [k |-> "sub", v |-> 0, p |-> p, b |-> b, trunc |-> FALSE]
TruncC(e) == [e EXCEPT !.trunc = TRUE]

\* the variable jl_fvar_base of line 768, made when there is no export
BaseGV == <<"b", 0, 0>>

\* get_ptrdiff32 with the operands of getSub swapped
get_ptrdiff32Swapped(ptr, base, wide) ==
    LET ptrdiff == SubC(base, ptr)
    IN  IF wide THEN TruncC(ptrdiff) ELSE ptrdiff

\* get_ptrdiff32 (lines 746-752)
get_ptrdiff32(ptr, base, wide) ==
    LET ptrdiff == SubC(ptr, base)
    IN  IF wide THEN TruncC(ptrdiff) ELSE ptrdiff

\* emit_offset_table that leaves the last symbol out
emit_offset_tableShort(vs, wide) ==
    LET nvars == IF vs = <<>> THEN 0 ELSE Len(vs) - 1
        base == IF nvars > 0 THEN vs[1] ELSE BaseGV
    IN  [base |-> base,
         offsets |-> <<IntC(nvars)>>
                     \o [i \in 1..nvars |->
                           IF i = 1 THEN IntC(0) ELSE get_ptrdiff32(vs[i], base, wide)]]

\* emit_offset_table (lines 754-787): the base and the initializer of the
\* offsets variable
emit_offset_table(vs, wide) ==
    LET nvars == Len(vs)
        base == IF nvars > 0 THEN vs[1] ELSE BaseGV
    IN  [base |-> base,
         offsets |-> <<IntC(nvars)>>
                     \o [i \in 1..nvars |->
                           IF i = 1 THEN IntC(0) ELSE get_ptrdiff32(vs[i], base, wide)]]

\* the word a constant expression of the table links to, the symbols at
\* the addresses addr
LinkValue(e, addr, wide) ==
    LET v == IF e.k = "int" THEN e.v ELSE (addr[e.p] - addr[e.b]) % Pow2(SizeBits(wide))
    IN  IF e.trunc THEN v % Pow2(OffsetBits) ELSE v % Pow2(SizeBits(wide))

\* lines 815-819: gv_relocs in function id order, ties in insertion order
RECURSIVE SortedRelocs(_, _, _)
SortedRelocs(rel, id, nfvars) ==
    IF id >= nfvars
    THEN <<>>
    ELSE SelectSeq(rel, LAMBDA r : r[2] = id) \o SortedRelocs(rel, id + 1, nfvars)

\* SlotValues without the pairs of lines 834-839 for the slots of
\* const_relocs
RECURSIVE SlotValuesDataOnly(_, _, _, _)
SlotValuesDataOnly(rel, cr, id, nfvars) ==
    IF id >= nfvars
    THEN <<>>
    ELSE LET mine == SelectSeq(rel, LAMBDA r : r[2] = id)
         IN  [k \in 1..Len(mine) |-> <<id, <<"d", 1, mine[k][1]>>>>]
             \o SlotValuesDataOnly(rel, cr, id + 1, nfvars)

\* lines 823-840, from function id on: the pairs of jl_clone_slots
RECURSIVE SlotValues(_, _, _, _)
SlotValues(rel, cr, id, nfvars) ==
    IF id >= nfvars
    THEN <<>>
    ELSE LET mine == SelectSeq(rel, LAMBDA r : r[2] = id)
         IN  [k \in 1..Len(mine) |-> <<id, <<"d", 1, mine[k][1]>>>>]
             \o (IF id \in DOMAIN cr THEN <<<<id, cr[id]>>>> ELSE <<>>)
             \o SlotValues(rel, cr, id + 1, nfvars)

\* lines 859-871, from fvars[j] on, for target i that is a group;
\* acc = [count, idxs, offsets]
RECURSIVE GroupEntries(_, _, _, _, _, _, _)
GroupEntries(acc, fv, shared, grp, vm, i, j) ==
    IF j >= Len(fv)
    THEN acc
    ELSE LET a1 == IF j \in shared
                   THEN [acc EXCEPT !.count[2] = @ + 1, !.idxs = Append(@, Word(0, j))]
                   ELSE acc
             a2 == IF i # 0
                   THEN [a1 EXCEPT !.offsets = Append(@, base_func(grp, vm, fv[j + 1]))]
                   ELSE a1
         IN  GroupEntries(a2, fv, shared, grp, vm, i, j + 1)

\* lines 872-890, from fvars[j] on, for subtarget i whose base group is grp
RECURSIVE TargetEntries(_, _, _, _, _, _, _)
TargetEntries(acc, fv, shared, grp, vm, i, j) ==
    IF j >= Len(fv)
    THEN acc
    ELSE LET base_f == base_func(grp, vm, fv[j + 1])
             f == map_get(vm[i], base_f, Nil)
             a1 == IF j \in shared
                   THEN [acc EXCEPT !.count[2] = @ + 1,
                                    !.idxs = Append(@, Word(1, j)),
                                    !.offsets = Append(@, map_get(vm[i], base_f, base_f))]
                   ELSE IF f # Nil
                   THEN [acc EXCEPT !.count[2] = @ + 1, !.idxs = Append(@, Word(0, j)),
                                    !.offsets = Append(@, f)]
                   ELSE acc
         IN  TargetEntries(a1, fv, shared, grp, vm, i, j + 1)

\* lines 853-892, from target i on; tb = [idxs, offsets]
RECURSIVE CloneTables(_, _, _, _, _, _, _)
CloneTables(tb, sp, gs, fv, shared, vm, i) ==
    IF i >= NTargets(sp)
    THEN tb
    ELSE LET start == [count |-> Word(0, 0), idxs |-> <<>>, offsets |-> tb.offsets]
             e == IF i = 0 \/ IsCloneAll(sp[i])
                  THEN GroupEntries([start EXCEPT !.count = Word(1, 0)],
                                    fv, shared, GroupOf(gs, i), vm, i, 0)
                  ELSE TargetEntries([start EXCEPT !.idxs = <<Word(0, sp[i].base)>>],
                                     fv, shared, GroupOf(gs, sp[i].base), vm, i, 0)
         IN  CloneTables([idxs |-> tb.idxs \o <<e.count>> \o e.idxs, offsets |-> e.offsets],
                         sp, gs, fv, shared, vm, i + 1)

emit_metadata ==
    /\ pc = "emit_metadata"
    /\ LET nfvars == Len(fvars)
           sorted == SortedRelocs(gv_relocs, 0, nfvars)
           values == SlotValues(sorted, const_relocs, 0, nfvars)
           shared_relocs == {values[k][1] : k \in 1..Len(values)}
           tb == CloneTables([idxs |-> <<>>, offsets |-> <<>>], specs, groups, fvars,
                             shared_relocs, vmap, 0)
       IN  /\ gv_relocs' = sorted
           /\ clone_slots' = values
           /\ slots_count' = (1 + 2 * Len(values)) \div 2
           /\ clone_idxs' = tb.idxs
           /\ clone_offsets' = tb.offsets
    /\ \E wide \in BOOLEAN :
          LET t == emit_offset_table(fvars, wide)
          IN  off' = [off EXCEPT !.wide = wide, !.base = t.base, !.offsets = t.offsets]
    /\ mod' = [mod EXCEPT !.changed = "true"]
    /\ pc' = "done"
    /\ UNCHANGED <<prop, scan, consume, part, dump, funcs, fnattr, veccall, func_infos, all_origs, image, groups, fvars,
                   orig_funcs, cloned, vmap, slots, const_relocs, extern_relocs, created>>

Next ==
    \/ annotate_module_clones
    \/ CloneCtx_ctor
    \/ prepare_slots
    \/ clone_decls
    \/ clone_bodies
    \/ fix_gv_uses
    \/ fix_inst_uses
    \/ emit_metadata

Spec == Init /\ [][Next]_vars
\* ------------------------------------------------------------- propagator, stepped
\* The while loop of lines 180-210 one call edge at a time, run on its own:
\* first from a seed set, then again from the set the first run ended with.
\* cur_set is visited in address order; the functions are numbered in
\* address order, which loses nothing as every call graph and every seed
\* set over the numbers is enumerated.
CalleeLists(budget) == UNION {[1..l -> Funcs] : l \in 0..budget}
\* the callee lists of functions 1..n, of at most budget call edges in all
RECURSIVE GraphsOver(_, _)
GraphsOver(n, budget) ==
    IF n = 0
    THEN {<<>>}
    ELSE UNION { {Append(g, l) : g \in GraphsOver(n - 1, budget - Len(l))}
                 : l \in CalleeLists(budget) }
CallGraphs == GraphsOver(NumFuncs, MaxEdges)
CalleeSets(cg) == [n \in Funcs |-> {cg[n][j] : j \in 1..Len(cg[n])}]

\* the first call edge of the functions of cur above function f: <<f, k>>,
\* <<0, 0>> when the round is over
NextEdge(cg, cur, f) ==
    LET rest == {n \in cur : n > f /\ Len(cg[n]) > 0}
    IN  IF rest = {}
        THEN <<0, 0>>
        ELSE <<CHOOSE n \in rest : \A m \in rest : n <= m, 1>>

\* lines 175-177: all_origs and cur_set start as the seed set
StartRun(cg, seed, run, first) ==
    [cg |-> cg, seed |-> seed, all |-> seed, cur |-> seed, next |-> {},
     f |-> NextEdge(cg, seed, 0)[1], k |-> NextEdge(cg, seed, 0)[2],
     run |-> run, first |-> first]

InitProp ==
    /\ pc = "propagate"
    /\ \E cg \in CallGraphs, seed \in (SUBSET Funcs) \ {{}} :
          prop = StartRun(cg, seed, 1, {})
    /\ specs = [i \in {0} |-> [flags |-> {}, base |-> 0]]
    /\ funcs = [g \in {} |-> DeclRec]
    /\ fnattr = [g \in {} |-> NoAttrs]
    /\ alias = 0
    /\ gv_init = NoInit
    /\ veccall = FALSE
    /\ func_infos = [n \in Funcs |-> {}]
    /\ all_origs = [i \in {} |-> {}]
    /\ groups = <<>>
    /\ fvars = <<>>
    /\ orig_funcs = <<>>
    /\ cloned = {}
    /\ vmap = [i \in {} |-> <<>>]
    /\ slots = <<>>
    /\ const_relocs = [i \in {} |-> Nil]
    /\ extern_relocs = [i \in {} |-> Nil]
    /\ gv_relocs = <<>>
    /\ created = <<>>
    /\ clone_slots = <<>>
    /\ slots_count = -1
    /\ clone_idxs = <<>>
    /\ clone_offsets = <<>>
    /\ scan = ScanIdle
    /\ consume = ConsumeIdle
    /\ part = PartIdle
    /\ off = OffIdle
    /\ mod = ModStrict
    /\ dump = DumpIdle

pipeline == <<pc, specs, funcs, fnattr, alias, gv_init, veccall, func_infos, all_origs,
              groups, fvars, orig_funcs, cloned, vmap, slots, const_relocs, extern_relocs,
              gv_relocs, created, clone_slots, slots_count, clone_idxs, clone_offsets, off, mod,
              dump, scan, consume, part>>

\* lines 184-206 for the call edge (f, k)
examine_child ==
    /\ pc = "propagate"
    /\ prop.f # 0
    /\ LET c == prop.cg[prop.f][prop.k]
           st == ExamineChild(CalleeSets(prop.cg), [all |-> prop.all, next |-> prop.next], c)
           nx == IF prop.k < Len(prop.cg[prop.f])
                 THEN <<prop.f, prop.k + 1>>
                 ELSE NextEdge(prop.cg, prop.cur, prop.f)
       IN  prop' = [prop EXCEPT !.all = st.all, !.next = st.next, !.f = nx[1], !.k = nx[2]]
    /\ UNCHANGED pipeline

\* lines 208-209, the round over
swap_sets ==
    /\ pc = "propagate"
    /\ prop.f = 0
    /\ prop.cur # {}
    /\ prop' = [prop EXCEPT !.cur = prop.next, !.next = {},
                            !.f = NextEdge(prop.cg, prop.next, 0)[1],
                            !.k = NextEdge(prop.cg, prop.next, 0)[2]]
    /\ UNCHANGED pipeline

\* the loop has ended (line 180): it is started again from its result
run_again ==
    /\ pc = "propagate"
    /\ prop.f = 0
    /\ prop.cur = {}
    /\ prop.run = 1
    /\ prop' = StartRun(prop.cg, prop.all, 2, prop.all)
    /\ UNCHANGED pipeline

NextProp ==
    \/ examine_child
    \/ swap_sets
    \/ run_again

SpecProp == InitProp /\ [][NextProp]_vars

\* The loop is straight-line code on one thread: a step that can be taken
\* is taken.
SpecPropFair == SpecProp /\ WF_vars(NextProp)

\* ------------------------------------------------------------- offset table, linked
\* emit_offset_table on its own, for every list of exported functions and
\* every placement of them, followed by the link that turns the constant
\* expressions of the table into words.
SymbolLists == {[i \in 1..n |-> Orig(i)] : n \in 0..NumFuncs}
Placements(vs, wide) ==
    {a \in [(IF vs = <<>> THEN {BaseGV} ELSE {vs[i] : i \in 1..Len(vs)})
                -> 0..(Pow2(SizeBits(wide)) - 1)] :
        \A g \in DOMAIN a, h \in DOMAIN a : g # h => a[g] # a[h]}

InitOffsets ==
    /\ pc = "emit_offset_table"
    /\ fvars \in SymbolLists
    /\ \E wide \in BOOLEAN : \E a \in Placements(fvars, wide) :
          off = [OffIdle EXCEPT !.wide = wide, !.addr = a]
    /\ prop = PropIdle
    /\ specs = [i \in {0} |-> [flags |-> {}, base |-> 0]]
    /\ funcs = [g \in {} |-> DeclRec]
    /\ fnattr = [g \in {} |-> NoAttrs]
    /\ alias = 0
    /\ gv_init = NoInit
    /\ veccall = FALSE
    /\ func_infos = [n \in Funcs |-> {}]
    /\ all_origs = [i \in {} |-> {}]
    /\ groups = <<>>
    /\ orig_funcs = <<>>
    /\ cloned = {}
    /\ vmap = [i \in {} |-> <<>>]
    /\ slots = <<>>
    /\ const_relocs = [i \in {} |-> Nil]
    /\ extern_relocs = [i \in {} |-> Nil]
    /\ gv_relocs = <<>>
    /\ created = <<>>
    /\ clone_slots = <<>>
    /\ slots_count = -1
    /\ clone_idxs = <<>>
    /\ clone_offsets = <<>>
    /\ scan = ScanIdle
    /\ consume = ConsumeIdle
    /\ part = PartIdle
    /\ mod = ModStrict
    /\ dump = DumpIdle

besides_off == <<specs, funcs, fnattr, alias, gv_init, veccall, func_infos, all_origs,
                 groups, fvars, orig_funcs, cloned, vmap, slots, const_relocs,
                 extern_relocs, gv_relocs, created, clone_slots, slots_count, clone_idxs, clone_offsets,
                 prop, mod, dump, scan, consume, part>>

emit_offset_table_only ==
    /\ pc = "emit_offset_table"
    /\ LET t == emit_offset_table(fvars, off.wide)
       IN  off' = [off EXCEPT !.base = t.base, !.offsets = t.offsets]
    /\ pc' = "link"
    /\ UNCHANGED besides_off

link ==
    /\ pc = "link"
    /\ off' = [off EXCEPT !.values = [i \in 1..Len(off.offsets) |->
                                        LinkValue(off.offsets[i], off.addr, off.wide)]]
    /\ pc' = "linked"
    /\ UNCHANGED besides_off

NextOffsets == emit_offset_table_only \/ link

SpecOffsets == InitOffsets /\ [][NextOffsets]_vars

\* ------------------------------------------------------------- properties
\* the phases named have run to their end
Ran(phases) ==
    \/ pc \in (({"ctor", "prepare_slots", "clone_decls", "clone_bodies", "fix_gv_uses",
                "fix_inst_uses", "emit_metadata", "done"}) \ phases)
    \/ pc = "abort" /\ phases \cap {"fix_gv_uses", "fix_inst_uses", "emit_metadata"} = {}

Annotated == Ran({})
DeclsCloned == Ran({"ctor", "prepare_slots", "clone_decls"})

\* julia.mv.clones of F has bit i
HasCloneBit(F, i) == fnattr[F].clones # -1 /\ TestBit(fnattr[F].clones, i)

\* the clone declarations clone_decls created for function n and target i
DeclCount(n, i) == Cardinality({k \in 1..Len(created) : created[k] = Fn(n, i)})

\* C1: for every clone_all target g > 0 and every function with a body,
\* annotation sets bit g of the function's clone set, and clone_decls
\* creates exactly one clone declaration for (function, g).
C1_CloneAllClonesEveryDefinition ==
    \A g \in FullTargets(specs), n \in Defined(funcs) :
        /\ Annotated => HasCloneBit(Orig(n), g)
        /\ DeclsCloned => DeclCount(n, g) = 1 /\ Fn(n, g) \in DOMAIN funcs

\* two clone_all targets and two bodies, each cloned once for each target
C1_Witness ==
    /\ pc = "clone_bodies"
    /\ Cardinality(FullTargets(specs)) = 2
    /\ Cardinality(Defined(funcs)) >= 2
    /\ \A g \in FullTargets(specs), n \in Defined(funcs) :
          HasCloneBit(Orig(n), g) /\ DeclCount(n, g) = 1

\* C2: a function with a body whose analyzer bitmask shares no bit with the
\* flags of subtarget t and which the closure computed for t did not add has
\* bit t unset and gets no clone declaration for t; bit 0 is never set.
C2_UnselectedNotCloned ==
    /\ Annotated =>
          \A t \in SubTargets(specs), n \in Defined(funcs) :
              (/\ func_infos[n] \cap (specs[t].flags \cap clone_mask) = {}
               /\ n \notin all_origs[t])
              => /\ ~HasCloneBit(Orig(n), t)
                 /\ DeclCount(n, t) = 0
                 /\ Fn(n, t) \notin DOMAIN funcs
    /\ \A F \in DOMAIN fnattr : ~HasCloneBit(F, 0)

\* a subtarget that clones one body, by its flags, and leaves another alone
C2_Witness ==
    /\ pc = "clone_bodies"
    /\ \E t \in SubTargets(specs) : \E n \in Defined(funcs), m \in Defined(funcs) :
          /\ func_infos[n] \cap (specs[t].flags \cap clone_mask) = {}
          /\ func_infos[n] # {}
          /\ n \notin all_origs[t]
          /\ ~HasCloneBit(Orig(n), t)
          /\ HasCloneBit(Orig(m), t)
          /\ DeclCount(m, t) = 1

\* C3: during propagation a function that is not a seed enters the clone
\* set if and only if, when it is examined, it is a direct callee of a
\* function of the current frontier, it is not in the set yet, and one of
\* its own direct callees is in the set; nothing enters the set otherwise,
\* so every added member is a callee of a member: no function is added for
\* calling a member.
C3_EntersIffExaminedCalleeCallsMember ==
    /\ [][ IF prop.f # 0
           THEN LET c == prop.cg[prop.f][prop.k]
                    enters == /\ c \notin prop.all
                              /\ \E c2 \in CalleeSets(prop.cg)[c] : c2 \in prop.all
                IN  /\ prop.f \in prop.cur
                    /\ prop'.all = (IF enters THEN prop.all \cup {c} ELSE prop.all)
           ELSE prop'.all = prop.all ]_vars
    /\ [](\A c \in prop.all \ prop.seed : \E f \in prop.all : c \in CalleeSets(prop.cg)[f])

\* the first run has ended: a callee that calls a member was added, and a
\* function that calls a member without being called by one was not
C3_Witness ==
    /\ prop.run = 1
    /\ prop.f = 0
    /\ prop.cur = {}
    /\ prop.all # prop.seed
    /\ \E u \in Funcs \ prop.all :
          /\ \E m \in prop.all : m \in CalleeSets(prop.cg)[u]
          /\ \A m \in prop.all : u \notin CalleeSets(prop.cg)[m]

\* C4: running the propagator again from the set it returned adds no member.
C4_RerunAddsNothing ==
    prop.run = 2 => prop.all = prop.first

\* the passes over the references have run to their end
GvUsesFixed == pc \in {"fix_inst_uses", "emit_metadata", "done"}
InstUsesFixed == pc \in {"emit_metadata", "done"}

\* the slot loads in the body of g
SlotLoads(g) == {r \in funcs[g].refs : r[1] = "s"}
SlotsOf(n) == {k \in 1..Len(slots) : slots[k][2] = n}
InSlots(r) == \E k \in 1..Len(slots) : slots[k] = r

\* C5: a function with rewritten call sites has exactly one relocation slot,
\* every slot there is was made by prepare_slots, one for each function
\* marked julia.mv.reloc, and every rewritten use, in every caller of every
\* group, loads from the one slot of the function it named.
C5_OneSlotSharedByAllRewrittenUses ==
    /\ Ran({"ctor", "prepare_slots"}) =>
          Len(slots) = Cardinality({F \in DOMAIN fnattr : F[3] = 0 /\ F[1] = "f" /\ fnattr[F].reloc})
    /\ (pc \in {"annotate", "ctor", "prepare_slots"}) => slots = <<>>
    /\ \A g \in DOMAIN funcs : \A r \in SlotLoads(g) :
          /\ InSlots(r)
          /\ Cardinality(SlotsOf(r[2])) = 1

\* the versions of function n that belong to group grp: its base version
\* and its clones for the subtargets of the group
GroupVersions(grp, n) ==
    {v \in {Fn(n, grp.idx)} \cup {Fn(n, grp.clones[j]) : j \in 1..Len(grp.clones)} :
        v \in DOMAIN funcs}

\* the subtargets of group grp that function n has a clone for
SubtargetClones(grp, n) ==
    {t \in {grp.clones[j] : j \in 1..Len(grp.clones)} : Fn(n, t) \in DOMAIN funcs}

\* C6: for every group and every function with a clone for a subtarget of
\* the group, after fix_inst_uses no function of the group references the
\* group's base version of the function directly.
C6_NoDirectUseOfBaseVersionInGroup ==
    InstUsesFixed =>
        \A p \in 1..Len(groups), n \in Funcs :
            SubtargetClones(groups[p], n) # {}
            => \A m \in Funcs : \A v \in GroupVersions(groups[p], m) :
                  Fn(n, groups[p].idx) \notin funcs[v].refs

\* C7: where a caller and a callee have clones for the same subtargets of a
\* group, no version of the caller in the group loads the callee through a
\* relocation slot.
C7_NoSlotLoadBetweenLockstepClones ==
    InstUsesFixed =>
        \A p \in 1..Len(groups), c \in Defined(funcs), f \in Defined(funcs) :
            SubtargetClones(groups[p], c) = SubtargetClones(groups[p], f)
            => \A v \in GroupVersions(groups[p], c) : \A r \in SlotLoads(v) : r[2] # f

\* C8: with the baseline and one SIMD subtarget the pass completes, the
\* functions cloned are those of the closed set of the subtarget, and an
\* uncloned caller holds no direct reference to a cloned function: it loads
\* the function from its relocation slot.
C8_SimdSubtargetScenario ==
    (NTargets(specs) = 2 /\ specs[1].flags = {"SIMD"}) =>
        /\ pc # "abort"
        /\ DeclsCloned =>
              \A n \in Defined(funcs) : (Fn(n, 1) \in DOMAIN funcs) <=> (n \in all_origs[1])
        /\ InstUsesFixed =>
              \A u \in Defined(funcs) \ all_origs[1], f \in all_origs[1] :
                  /\ Orig(f) \notin funcs[Orig(u)].refs
                  /\ Fn(f, 1) \notin funcs[Orig(u)].refs
                  /\ \A r \in SlotLoads(Orig(u)) : InSlots(r)

\* the relocations recorded for function n
RelocsOf(rel, n) ==
    {k \in 1..Len(rel) : fvars[rel[k][2] + 1] = Orig(n)}

\* C9: fix_gv_uses leaves no reference from the initializer to a function
\* with a clone, puts a null pointer in place of each, and records one
\* relocation for each, whatever the target list.
C9_DataReferencesBecomeRelocations ==
    [][ (pc = "fix_gv_uses" /\ pc' # "abort") =>
          LET cl == {n \in Defined(funcs) : fnattr[Orig(n)].clones # -1}
          IN  /\ \A n \in cl :
                    /\ RefCount(gv_init', n) = 0
                    /\ Cardinality(RelocsOf(gv_relocs', n)) = RefCount(gv_init, n)
              /\ NullCount(gv_init') =
                    NullCount(gv_init) + SumSeq([n \in Funcs |->
                                                   IF n \in cl THEN RefCount(gv_init, n) ELSE 0])
      ]_vars

\* C10: after the pass no alias names a function with a clone, and the
\* function that took the name of an alias has the signature of the
\* function the alias named, loads its relocation slot and tail-calls it.
C10_AliasBecomesTrampoline ==
    pc = "done" =>
        /\ alias # 0 => fnattr[Orig(alias)].clones = -1
        /\ AliasGV \in DOMAIN funcs =>
              /\ funcs[AliasGV].tramp \in {"tail", "musttail"}
              /\ \E r \in SlotLoads(AliasGV) :
                    /\ funcs[AliasGV].refs = {r}
                    /\ InSlots(r)
                    /\ Cardinality(SlotsOf(r[2])) = 1
                    /\ funcs[AliasGV].vararg = funcs[Orig(r[2])].vararg
                    /\ funcs[AliasGV].vec = funcs[Orig(r[2])].vec


\* ------------------------------------------------------------- the pass from its entry
\* runMultiVersioning from its first line to the end of the constructor,
\* for every module name, both modes, every state of the two export table
\* variables, both builds, and every target list, the malformed ones too.
\* In the strict mode the tables are the arrays the code generator made,
\* unless the module is named "sysimage".
TableStates == {"missing", "noinit", "notarray", "array"}
EntryTargetLists ==
    UNION { { sp \in [0..(n - 1) -> [flags : {{}, {"ALL"}, {"SIMD"}},
                                     base : (-1)..(MaxTargets - 1)]] :
                /\ sp[0] = [flags |-> {}, base |-> 0]
                /\ \A i \in 1..(n - 1) :
                      /\ sp[i].flags # {}
                      /\ IsCloneAll(sp[i]) => sp[i].base = 0 }
            : n \in 1..MaxTargets }

InitEntry ==
    /\ pc = "runMultiVersioning"
    /\ specs \in EntryTargetLists
    /\ \E name \in {"sysimage", "text"}, relaxed \in BOOLEAN, ndebug \in BOOLEAN,
          fv \in TableStates, gv \in TableStates :
          /\ (~relaxed /\ name # "sysimage") => (fv = "array" /\ gv = "array")
          /\ mod = ModRec(name, relaxed, fv, gv, ndebug)
    /\ \E decls \in {{}, {NumFuncs}} :
          funcs = [g \in {Orig(n) : n \in Funcs} |->
                     ImageFuncs(decls, [n \in Funcs |-> "plain"], {})[g]]
    /\ fnattr = [g \in {Orig(n) : n \in Funcs} |-> NoAttrs]
    /\ alias = 0
    /\ gv_init = NoInit
    /\ veccall = FALSE
    /\ func_infos = [n \in Funcs |-> {}]
    /\ all_origs = [i \in {} |-> {}]
    /\ groups = <<>>
    /\ fvars = <<>>
    /\ orig_funcs = <<>>
    /\ cloned = {}
    /\ vmap = [i \in {} |-> <<>>]
    /\ slots = <<>>
    /\ const_relocs = [i \in {} |-> Nil]
    /\ extern_relocs = [i \in {} |-> Nil]
    /\ gv_relocs = <<>>
    /\ created = <<>>
    /\ clone_slots = <<>>
    /\ slots_count = -1
    /\ clone_idxs = <<>>
    /\ clone_offsets = <<>>
    /\ scan = ScanIdle
    /\ consume = ConsumeIdle
    /\ part = PartIdle
    /\ prop = PropIdle
    /\ off = OffIdle
    /\ dump = DumpIdle

\* SkipsModule without the test of the module's name
SkipsModuleAnyName(m) ==
    /\ m.allow_bad_fvars
    /\ m.jl_fvars # "array" \/ m.jl_gvars # "array"

\* lines 917-924: the tests that make the pass return false at once
SkipsModule(m) ==
    \/ m.name = "sysimage"
    \/ /\ m.allow_bad_fvars
       /\ m.jl_fvars # "array" \/ m.jl_gvars # "array"

\* runMultiVersioning up to the construction of CloneCtx (lines 907-926)
runMultiVersioning ==
    /\ pc = "runMultiVersioning"
    /\ IF SkipsModule(mod)
       THEN /\ mod' = [mod EXCEPT !.changed = "false"]
            /\ pc' = "skipped"
       ELSE /\ pc' = "ctor"
            /\ UNCHANGED mod
    /\ UNCHANGED <<prop, scan, consume, part, dump, off, tables, funcs, fnattr, veccall, func_infos, all_origs, image, ctx>>

NextEntry == runMultiVersioning \/ CloneCtx_ctor

SpecEntry == InitEntry /\ [][NextEntry]_vars


\* ------------------------------------------------------------- jl_dump_native_impl
\* The text module from the metadata block of jl_dump_native_impl to the
\* end of add_output: annotation, the thread count, then either
\* add_output_impl on the whole module or partitionModule and one worker
\* per shard.  The optimizer add_output_impl runs holds the pass
\* (addOptimizationPasses with dump_native, lines 1582-1583 and 1624-1625).
MaxThreads == 3

InitDump ==
    /\ pc = "dump_metadata"
    /\ \E imaging \in BOOLEAN, outs \in (SUBSET {"unopt", "opt", "obj", "asm"}) \ {{}} :
          dump = DumpRec(imaging, outs)
    /\ specs = [i \in {0} |-> [flags |-> {}, base |-> 0]]
    /\ funcs = [g \in {} |-> DeclRec]
    /\ fnattr = [g \in {} |-> NoAttrs]
    /\ alias = 0
    /\ gv_init = NoInit
    /\ veccall = FALSE
    /\ func_infos = [n \in Funcs |-> {}]
    /\ all_origs = [i \in {} |-> {}]
    /\ groups = <<>>
    /\ fvars = <<>>
    /\ orig_funcs = <<>>
    /\ cloned = {}
    /\ vmap = [i \in {} |-> <<>>]
    /\ slots = <<>>
    /\ const_relocs = [i \in {} |-> Nil]
    /\ extern_relocs = [i \in {} |-> Nil]
    /\ gv_relocs = <<>>
    /\ created = <<>>
    /\ clone_slots = <<>>
    /\ slots_count = -1
    /\ clone_idxs = <<>>
    /\ clone_offsets = <<>>
    /\ scan = ScanIdle
    /\ consume = ConsumeIdle
    /\ part = PartIdle
    /\ prop = PropIdle
    /\ off = OffIdle
    /\ mod = ModStrict

besides_dump == <<specs, funcs, fnattr, alias, gv_init, veccall, func_infos, all_origs,
                  groups, fvars, orig_funcs, cloned, vmap, slots, const_relocs,
                  extern_relocs, gv_relocs, created, clone_slots, slots_count, clone_idxs,
                  clone_offsets, prop, off, mod, scan, consume, part>>

\* line 1295: the metadata block runs in imaging mode only
Preannotates(d) == d.imaging

\* lines 1295-1332: multiversioning_preannotate, then the thread count of
\* compute_image_thread_count (lines 1124-1209), at least 1
add_metadata ==
    /\ pc = "dump_metadata"
    /\ IF Preannotates(dump)
       THEN \E n \in 1..MaxThreads :
               dump' = [dump EXCEPT !.annotated = TRUE, !.threads = n]
       ELSE UNCHANGED dump
    /\ pc' = "dump_compile"
    /\ UNCHANGED besides_dump

\* add_output_impl (lines 799-849) as far as the pass goes: the optimizer,
\* and the pass in it, runs unless only unoptimized bitcode is asked for
\* (line 822)
RunsPass(d) == d.outs \cap {"opt", "obj", "asm"} # {}

\* add_output never taking the branch of line 1033
SingleThreadNever(d) == FALSE

\* line 1033
SingleThread(d) == d.threads = 1

\* add_output (lines 1020-1122) up to the start of the workers: with one
\* thread add_output_impl on the whole module; otherwise partitionModule,
\* serializeModule, and the workers are started
add_output ==
    /\ pc = "dump_compile"
    /\ IF SingleThread(dump)
       THEN /\ dump' = [dump EXCEPT !.emitted = RunsPass(dump)]
            /\ pc' = "dump_done"
       ELSE /\ dump' = [dump EXCEPT !.partitioned = TRUE,
                                    !.shard = [i \in 1..dump.threads |-> "started"]]
            /\ pc' = "dump_workers"
    /\ UNCHANGED besides_dump

\* lines 1078-1094 of worker i: the shard is loaded and materialized,
\* construct_vars rebuilds its export tables, julia.mv.suffix is set
worker_construct(i) ==
    /\ pc = "dump_workers"
    /\ dump.shard[i] = "started"
    /\ dump' = [dump EXCEPT !.shard[i] = "constructed"]
    /\ UNCHANGED <<pc, besides_dump>>

\* lines 1102-1107 of worker i: add_output_impl on the shard
worker_add_output_impl(i) ==
    /\ pc = "dump_workers"
    /\ dump.shard[i] = "constructed"
    /\ dump' = [dump EXCEPT !.shard[i] = IF RunsPass(dump) THEN "emitted" ELSE "written"]
    /\ UNCHANGED <<pc, besides_dump>>

\* lines 1112-1114: the workers are joined
join_workers ==
    /\ pc = "dump_workers"
    /\ \A i \in 1..dump.threads : dump.shard[i] \in {"emitted", "written"}
    /\ pc' = "dump_done"
    /\ UNCHANGED <<dump, besides_dump>>

NextDump ==
    \/ add_metadata
    \/ add_output
    \/ \E i \in 1..MaxThreads : i <= dump.threads /\ worker_construct(i)
    \/ \E i \in 1..MaxThreads : i <= dump.threads /\ worker_add_output_impl(i)
    \/ join_workers

SpecDump == InitDump /\ [][NextDump]_vars

\* the clone bodies are filled in
BodiesCloned == Ran({"ctor", "prepare_slots", "clone_decls", "clone_bodies"})

\* the baseline and one clone_all target
BaselineAndCloneAll == NTargets(specs) = 2 /\ IsCloneAll(specs[1])

\* the function ids of the pairs of jl_clone_slots whose offset is a data
\* relocation
DataSlotIds == {clone_slots[k][1] : k \in {j \in 1..Len(clone_slots) : clone_slots[j][2][1] = "d"}}

\* C11: with the baseline and one clone_all target, every function with a
\* body has exactly one clone, a full one tagged with group 1; fix_gv_uses
\* leaves no reference to a function with a body in the initializer, puts a
\* null pointer in place of each and records one relocation for each; and
\* the emitted tables hold one (id, offset) pair for each relocation and
\* list its function id in the section of the baseline and in the section
\* of target 1.
C11_CloneAllScenario ==
    /\ [](BaselineAndCloneAll =>
            /\ BodiesCloned =>
                  \A n \in Defined(funcs) :
                      /\ {g \in DOMAIN funcs : g[2] = n /\ g[3] # 0} = {Fn(n, 1)}
                      /\ DeclCount(n, 1) = 1
                      /\ HasBody(funcs, Fn(n, 1))
                      /\ fnattr[Fn(n, 1)].clone = 1
            /\ GvUsesFixed => \A n \in Defined(funcs) : RefCount(gv_init, n) = 0
            /\ pc = "done" =>
                  /\ Cardinality({k \in 1..Len(clone_slots) : clone_slots[k][2][1] = "d"})
                        = Len(gv_relocs)
                  /\ \A k \in 1..Len(gv_relocs) :
                        \E j \in 1..Len(clone_slots) :
                            clone_slots[j] = <<gv_relocs[k][2], <<"d", 1, gv_relocs[k][1]>>>>
                  /\ LET half == Len(clone_idxs) \div 2
                         sect(i) == SubSeq(clone_idxs, i * half + 2, (i + 1) * half)
                     IN  /\ Len(clone_idxs) = 2 * half
                         /\ \A i \in {0, 1} :
                               /\ clone_idxs[i * half + 1] = Word(1, half - 1)
                               /\ \A id \in DataSlotIds :
                                     \E q \in 1..(half - 1) : sect(i)[q] = Word(0, id))
    /\ [][ (BaselineAndCloneAll /\ pc = "fix_gv_uses" /\ pc' # "abort") =>
              /\ \A n \in Defined(funcs) :
                    Cardinality(RelocsOf(gv_relocs', n)) = RefCount(gv_init, n)
              /\ Len(gv_relocs') = SumSeq([n \in Funcs |->
                                             IF n \in Defined(funcs) THEN RefCount(gv_init, n) ELSE 0])
              /\ NullCount(gv_init') = NullCount(gv_init) + Len(gv_relocs')
       ]_vars

\* the pass has ended on an image whose data symbol held two references
C11_Witness ==
    /\ BaselineAndCloneAll
    /\ pc = "done"
    /\ Len(gv_relocs) = 2
    /\ NullCount(gv_init) >= 2
    /\ \A n \in Defined(funcs) : fnattr[Fn(n, 1)].clone = 1

\* a table word read as a signed number
SignedWord(v) == IF v >= Pow2(OffsetBits - 1) THEN v - Pow2(OffsetBits) ELSE v

\* the address the i-th symbol decodes to: the base address plus the i-th
\* stored delta, in the width of a pointer
DecodedAddress(i) ==
    (off.addr[off.base] + SignedWord(off.values[i + 1])) % Pow2(SizeBits(off.wide))

\* the distance of the i-th symbol from the first fits a signed table word
DeltaFits(i) ==
    LET d == off.addr[fvars[i]] - off.addr[fvars[1]]
    IN  -Pow2(OffsetBits - 1) <= d /\ d < Pow2(OffsetBits - 1)

\* the linked table holds the count, then one word per symbol, the first 0,
\* and its base is the first symbol
TableLayout ==
    /\ Len(off.values) = Len(fvars) + 1
    /\ off.values[1] = Len(fvars)
    /\ fvars # <<>> => off.values[2] = 0 /\ off.base = fvars[1]

\* C13: the linked offset table holds the count followed by one delta per
\* symbol, the first delta 0 and the base the first symbol, and the base
\* address plus the i-th stored delta is the address of the i-th symbol,
\* for every symbol whose distance from the first fits a signed table word.
C13_OffsetTableRoundTrip ==
    pc = "linked" =>
        /\ TableLayout
        /\ \A i \in 1..Len(fvars) :
              (~off.wide \/ DeltaFits(i)) => DecodedAddress(i) = off.addr[fvars[i]]

\* a linked table of three symbols on a 64-bit build, one below the base,
\* that decodes to the addresses of the symbols
C13_Witness ==
    /\ pc = "linked"
    /\ off.wide
    /\ Len(fvars) = 3
    /\ off.addr[fvars[2]] < off.addr[fvars[1]]
    /\ \A i \in 1..3 : DeltaFits(i) /\ DecodedAddress(i) = off.addr[fvars[i]]

\* C13 as stated: the round trip is exact for every address list.
C13_RoundTripForEveryAddressList ==
    pc = "linked" =>
        /\ TableLayout
        /\ \A i \in 1..Len(fvars) : DecodedAddress(i) = off.addr[fvars[i]]

\* the target list is the baseline alone
BaselineOnly == NTargets(specs) = 1

\* C12: with the baseline alone the pass ends without creating a clone
\* declaration, a relocation slot or a data relocation and without changing
\* a function body, the alias or the initializer; the offset table it
\* emits lists every function with a body, the first at offset 0 from the
\* base, which is that function; the relocation table has no pair and the
\* clone-index table no entry after its count of 0.
C12_BaselineOnlyScenario ==
    /\ [](BaselineOnly =>
            /\ pc # "abort"
            /\ created = <<>>
            /\ \A g \in DOMAIN funcs : g[3] = 0 /\ g # AliasGV
            /\ slots = <<>>
            /\ DOMAIN const_relocs = {}
            /\ DOMAIN extern_relocs = {}
            /\ gv_relocs = <<>>
            /\ pc = "done" =>
                  /\ fvars = ExportedFuncs(funcs)
                  /\ Len(off.offsets) = Len(fvars) + 1
                  /\ off.offsets[1] = IntC(Len(fvars))
                  /\ fvars # <<>> => off.base = fvars[1] /\ off.offsets[2] = IntC(0)
                  /\ \A i \in 2..Len(fvars) :
                        /\ off.offsets[i + 1].p = fvars[i]
                        /\ off.offsets[i + 1].b = fvars[1]
                  /\ clone_slots = <<>>
                  /\ clone_idxs = <<Word(1, 0)>>
                  /\ clone_offsets = <<>>)
    /\ [][ BaselineOnly => funcs' = funcs /\ alias' = alias /\ gv_init' = gv_init ]_vars

\* the pass has ended on an image with three bodies, a call site and a
\* data reference, the baseline alone
C12_Witness ==
    /\ BaselineOnly
    /\ pc = "done"
    /\ Len(fvars) = 3
    /\ Len(off.offsets) = 4
    /\ RefTotal(gv_init) >= 1
    /\ \E g \in DOMAIN funcs : funcs[g].refs # {}

\* the targets of the group at place p: its root and its subtargets
Members(p) == {groups[p].idx} \cup {groups[p].clones[j] : j \in 1..Len(groups[p].clones)}

\* the constructor has grouped the targets
Grouped == pc = "prepare_slots"

\* C14: after the constructor, for a target list whose bases are earlier
\* targets: the first group has root 0; every clone_all target i > 0 is the
\* root of one group, which is not the first; every other target i > 0 is
\* among the subtargets of the one group that holds its base; every target
\* is in exactly one group, once; and every target is found, as a root or
\* as a subtarget.
C14_TargetGrouping ==
    (Grouped /\ BasesInOrder(specs)) =>
        /\ groups[1].idx = 0
        /\ Len(groups) = 1 + Cardinality(FullTargets(specs))
        /\ \A i \in FullTargets(specs) :
              \E p \in 2..Len(groups) : groups[p].idx = i
        /\ \A p \in 1..Len(groups), q \in 1..Len(groups) :
              groups[p].idx = groups[q].idx => p = q
        /\ \A p \in 1..Len(groups) :
              /\ groups[p].idx = 0 \/ groups[p].idx \in FullTargets(specs)
              /\ Cardinality(Members(p)) = 1 + Len(groups[p].clones)
        /\ \A i \in SubTargets(specs) :
              \E p \in 1..Len(groups) :
                  /\ \E j \in 1..Len(groups[p].clones) : groups[p].clones[j] = i
                  /\ specs[i].base \in Members(p)
        /\ \A i \in DOMAIN specs :
              Cardinality({p \in 1..Len(groups) : i \in Members(p)}) = 1

\* three targets grouped: a subtarget whose base is a subtarget of a
\* clone_all target's group, or a subtarget under a clone_all target next
\* to one under the baseline
C14_Witness ==
    /\ Grouped
    /\ BasesInOrder(specs)
    /\ NTargets(specs) = 3
    /\ \E p \in 1..Len(groups) :
          /\ groups[p].clones # <<>>
          /\ \E j \in 1..Len(groups[p].clones) :
                specs[groups[p].clones[j]].base # 0

\* C15: the constructor, given a target list with a subtarget whose base is
\* negative or not smaller than its own index, ends in the abort state and
\* leaves the image as it was: jl_fvars and jl_gvars as they were, no
\* function, attribute, alias or initializer changed.
C15_MalformedListStopsBeforeMutation ==
    [][ (pc = "ctor" /\ ~BasesInOrder(specs)) =>
          /\ pc' = "abort"
          /\ mod'.jl_fvars = mod.jl_fvars
          /\ mod'.jl_gvars = mod.jl_gvars
          /\ funcs' = funcs
          /\ fnattr' = fnattr
          /\ alias' = alias
          /\ gv_init' = gv_init
      ]_vars

\* the assert of line 382 has failed with both export tables erased
C15_Witness ==
    /\ pc = "abort"
    /\ ~BasesInOrder(specs)
    /\ ~mod.ndebug
    /\ mod.jl_fvars = "erased"
    /\ mod.jl_gvars = "erased"

\* an export table variable that is missing, has no initializer, or whose
\* initializer is no constant array
BadTable(t) == t \in {"missing", "noinit", "notarray"}

\* C16: in the relaxed mode with a bad export table, and for a module named
\* "sysimage" in either mode, runMultiVersioning returns false at once and
\* changes nothing: no function, attribute, alias, initializer, slot, clone
\* or table is made or changed, and the export tables stay as they were.
C16_RelaxedModeSkips ==
    /\ [][ (/\ pc = "runMultiVersioning"
            /\ \/ mod.name = "sysimage"
               \/ mod.allow_bad_fvars /\ (BadTable(mod.jl_fvars) \/ BadTable(mod.jl_gvars)))
           => /\ pc' = "skipped"
              /\ mod' = [mod EXCEPT !.changed = "false"]
              /\ UNCHANGED <<funcs, fnattr, veccall, image, ctx, tables, off>>
         ]_vars
    /\ [](pc = "skipped" =>
            /\ mod.changed = "false"
            /\ mod.jl_fvars # "erased" /\ mod.jl_gvars # "erased"
            /\ \A g \in DOMAIN fnattr : fnattr[g] = NoAttrs
            /\ \A g \in DOMAIN funcs : g[3] = 0
            /\ created = <<>> /\ slots = <<>>
            /\ clone_slots = <<>> /\ clone_idxs = <<>> /\ clone_offsets = <<>>
            /\ off = OffIdle)
    /\ [][pc = "skipped" => pc' = "skipped"]_vars

\* the pass has skipped a module in the relaxed mode whose jl_gvars has no
\* initializer
C16_Witness ==
    /\ pc = "skipped"
    /\ mod.name = "text"
    /\ mod.allow_bad_fvars
    /\ mod.jl_fvars = "array"
    /\ mod.jl_gvars = "noinit"
    /\ mod.changed = "false"

\* the pairs of jl_clone_slots equal to pr
PairsEqual(pr) == {k \in 1..Len(clone_slots) : clone_slots[k] = pr}

\* the pair a recorded data relocation is emitted as
DataPair(r) == <<r[2], <<"d", 1, r[1]>>>>

\* C17: the emitted relocation table holds one pair for every recorded data
\* relocation and one for every slot of const_relocs, and no other pair;
\* the pairs are in ascending order of function id; the first word of the
\* table is the number of pairs; and the ids in the table are the ids with
\* a slot or a data relocation.
C17_RelocationTable ==
    pc = "done" =>
        /\ \A k \in 1..Len(gv_relocs) :
              Cardinality(PairsEqual(DataPair(gv_relocs[k])))
                  = Cardinality({j \in 1..Len(gv_relocs) : gv_relocs[j] = gv_relocs[k]})
        /\ \A id \in DOMAIN const_relocs :
              Cardinality(PairsEqual(<<id, const_relocs[id]>>)) = 1
        /\ Len(clone_slots) = Len(gv_relocs) + Cardinality(DOMAIN const_relocs)
        /\ \A j \in 1..Len(clone_slots), k \in 1..Len(clone_slots) :
              j < k => clone_slots[j][1] <= clone_slots[k][1]
        /\ slots_count = Len(clone_slots)
        /\ {clone_slots[k][1] : k \in 1..Len(clone_slots)}
              = {gv_relocs[k][2] : k \in 1..Len(gv_relocs)} \cup DOMAIN const_relocs

\* a table with two data relocations and a slot
C17_Witness ==
    /\ pc = "done"
    /\ Len(gv_relocs) = 2
    /\ DOMAIN const_relocs # {}
    /\ slots_count = 3

\* The sections of jl_clone_idxs and jl_clone_offsets, read the way they
\* were written: for target i from word pos of the indices and word opos of
\* the offsets on.  A section is [count, ids, offs]: the low part of its
\* count word, the words listed after it (after the base index, for a
\* subtarget), and its offsets.
RECURSIVE Sections(_, _, _)
Sections(i, pos, opos) ==
    IF i >= NTargets(specs)
    THEN <<>>
    ELSE LET count == clone_idxs[pos][2]
             root == i = 0 \/ IsCloneAll(specs[i])
             first == IF root THEN pos + 1 ELSE pos + 2
             noffs == IF i = 0 THEN 0 ELSE IF root THEN Len(fvars) ELSE count
         IN  <<[count |-> count,
                ids |-> SubSeq(clone_idxs, first, first + count - 1),
                offs |-> SubSeq(clone_offsets, opos, opos + noffs - 1)]>>
             \o Sections(i + 1, first + count, opos + noffs)

\* the section of target i
SectionOf(i) == Sections(0, 1, 1)[i + 1]

\* C18: in the emitted tables, the section of every subtarget t lists the
\* id of every exported function with bit t in its clone set exactly once,
\* with the clone of the function for t as its offset, and the count of the
\* section is the number of ids it lists; the section of every clone_all
\* target has one offset for every exported function, in id order, that of
\* the target's clone of the function.
C18_CloneIndexSections ==
    pc = "done" =>
        /\ \A t \in SubTargets(specs) :
              LET sec == SectionOf(t)
              IN  /\ sec.count = Len(sec.ids)
                  /\ Len(sec.offs) = Len(sec.ids)
                  /\ \A j \in 1..Len(fvars) :
                        HasCloneBit(fvars[j], t) =>
                            /\ Cardinality({q \in 1..Len(sec.ids) : sec.ids[q][2] = j - 1}) = 1
                            /\ \A q \in 1..Len(sec.ids) :
                                  sec.ids[q][2] = j - 1 => sec.offs[q] = Fn(fvars[j][2], t)
        /\ \A g \in FullTargets(specs) :
              SectionOf(g).offs = [j \in 1..Len(fvars) |-> Fn(fvars[j][2], g)]

\* the tables of a list with a subtarget under a clone_all target, a
\* function cloned for the subtarget
C18_Witness ==
    /\ pc = "done"
    /\ \E t \in SubTargets(specs) :
          /\ specs[t].base # 0
          /\ \E j \in 1..Len(fvars) : HasCloneBit(fvars[j], t) /\ Fn(fvars[j][2], t) \in DOMAIN funcs

\* partitionModule has been called, or a worker has been started
PartitionBegun == dump.partitioned \/ dump.shard # <<>>

\* C19: partitionModule and the workers start only after the annotation of
\* the module by multiversioning_preannotate; the pass has not run on the
\* module at that point and never runs on it once it is partitioned: it
\* runs, through emit_metadata, in each worker on the worker's shard, after
\* construct_vars, and on the whole module only when there is one thread.
C19_PartitionAfterAnnotationOnly ==
    /\ [](PartitionBegun => dump.annotated /\ ~dump.emitted /\ dump.threads > 1)
    /\ [](dump.emitted => ~dump.partitioned /\ dump.threads = 1)
    /\ [][ \A i \in 1..MaxThreads :
              (i <= dump.threads /\ i \in DOMAIN dump'.shard /\ dump'.shard[i] = "emitted"
               /\ (i \notin DOMAIN dump.shard \/ dump.shard[i] # "emitted"))
              => dump.partitioned /\ dump.shard[i] = "constructed" ]_vars

\* three workers, the pass done on two shards and not yet on the third
C19_Witness ==
    /\ dump.partitioned
    /\ dump.threads = 3
    /\ ~dump.emitted
    /\ dump.shard[1] = "emitted"
    /\ dump.shard[2] = "emitted"
    /\ dump.shard[3] = "started"

\* C19 as stated: partitionModule and the workers start only after the
\* pass has completed, through emit_metadata, on the module partitioned.
C19_PartitionAfterPass ==
    PartitionBegun => dump.emitted

\* the while loop of line 180 has ended
LoopEnded == prop.f = 0 /\ prop.cur = {}

\* C20: for every call graph, with cycles and self-calls or without, and
\* every seed set, the frontier loop ends, and so does its second run; the
\* clone set never loses a member; a function that enters the new frontier
\* was not in the clone set and is in it from then on, so that it enters at
\* most once; and when the loop ends the new frontier is empty.
C20_FrontierLoopTerminates ==
    /\ <>(prop.run = 2 /\ LoopEnded)
    /\ [][ /\ prop.all \subseteq prop'.all
           /\ \A c \in prop'.next \ prop.next : c \notin prop.all /\ c \in prop'.all
           /\ prop'.cur # prop.cur => (prop'.cur = prop.next \/ prop'.run # prop.run)
         ]_vars
    /\ [](LoopEnded => prop.next = {})

\* the first run has ended on a call graph in which a function of the
\* clone set calls itself and two functions call each other, after a
\* function entered the frontier
C20_Witness ==
    /\ prop.run = 1
    /\ LoopEnded
    /\ prop.all # prop.seed
    /\ \E a \in prop.all : a \in CalleeSets(prop.cg)[a]
    /\ \E a \in Funcs, b \in Funcs :
          /\ a # b
          /\ b \in CalleeSets(prop.cg)[a]
          /\ a \in CalleeSets(prop.cg)[b]

\* ------------------------------------------------------------- analyzer, swept
\* Lines 150-159 and 252-254 on their own: collect_func_info is called for
\* the functions with a body in module order, all calls sharing
\* has_veccall.  Functions 1 and 2 have a body of at most MaxInsts
\* instructions, function 3 is a declaration.
MaxInsts == 2

\* The instructions the enumerated bodies are made of: a call with a vector
\* in its type, the same with a fast-math flag, a call of llvm.muladd.*, of
\* julia.cpu.have_fma.*, of another julia.cpu.*, a store of a vector, a
\* vector operation with a fast-math flag, an operation on a half value.
ScanKinds ==
    {Inst("call", TRUE, "none", FALSE, FALSE),
     Inst("call", TRUE, "none", TRUE, FALSE),
     Inst("call", FALSE, "muladd", FALSE, FALSE),
     Inst("call", FALSE, "have_fma", FALSE, FALSE),
     Inst("call", FALSE, "cpu", FALSE, FALSE),
     Inst("store", TRUE, "none", FALSE, FALSE),
     Inst("other", TRUE, "none", TRUE, FALSE),
     Inst("other", FALSE, "none", FALSE, TRUE)}

ScanBodies == UNION {[1..l -> ScanKinds] : l \in 0..MaxInsts}

InitAnalyze ==
    /\ pc = "collect_func_info"
    /\ \E b1 \in ScanBodies, b2 \in ScanBodies :
          funcs = [g \in {Orig(n) : n \in Funcs} |->
                     IF g[2] = NumFuncs
                     THEN DeclRec
                     ELSE FuncRec(FALSE, FALSE, IF g[2] = 1 THEN b1 ELSE b2, {})]
    /\ \E known \in BOOLEAN :
          scan = [of |-> DefinedSeq(funcs, 1), j |-> 1, has_veccall |-> FALSE, known |-> known]
    /\ specs = [i \in {0} |-> [flags |-> {}, base |-> 0]]
    /\ fnattr = [g \in {Orig(n) : n \in Funcs} |-> NoAttrs]
    /\ alias = 0
    /\ gv_init = NoInit
    /\ veccall = FALSE
    /\ func_infos = [n \in Funcs |-> {}]
    /\ all_origs = [i \in {} |-> {}]
    /\ groups = <<>>
    /\ fvars = <<>>
    /\ orig_funcs = <<>>
    /\ cloned = {}
    /\ vmap = [i \in {} |-> <<>>]
    /\ slots = <<>>
    /\ const_relocs = [i \in {} |-> Nil]
    /\ extern_relocs = [i \in {} |-> Nil]
    /\ gv_relocs = <<>>
    /\ created = <<>>
    /\ clone_slots = <<>>
    /\ slots_count = -1
    /\ clone_idxs = <<>>
    /\ clone_offsets = <<>>
    /\ prop = PropIdle
    /\ off = OffIdle
    /\ mod = ModStrict
    /\ dump = DumpIdle
    /\ consume = ConsumeIdle
    /\ part = PartIdle

besides_scan == <<specs, funcs, fnattr, alias, gv_init, all_origs, groups, fvars,
                  orig_funcs, cloned, vmap, slots, const_relocs, extern_relocs, gv_relocs,
                  created, clone_slots, slots_count, clone_idxs, clone_offsets, prop, off,
                  mod, dump, consume, part>>

\* line 158 for the function scan.j names
analyze_next ==
    /\ pc = "collect_func_info"
    /\ scan.j <= Len(scan.of)
    /\ LET n == scan.of[scan.j]
           r == collect_func_info(funcs[Orig(n)], scan.has_veccall, scan.known)
       IN  /\ func_infos' = [func_infos EXCEPT ![n] = r.flag]
           /\ scan' = [scan EXCEPT !.j = @ + 1, !.has_veccall = r.has_veccall]
    /\ UNCHANGED <<pc, veccall, besides_scan>>

\* lines 252-254, the sweep over
add_veccall_flag ==
    /\ pc = "collect_func_info"
    /\ scan.j > Len(scan.of)
    /\ veccall' = (veccall \/ scan.has_veccall)
    /\ pc' = "analyzed"
    /\ UNCHANGED <<func_infos, scan, besides_scan>>

NextAnalyze == analyze_next \/ add_veccall_flag

SpecAnalyze == InitAnalyze /\ [][NextAnalyze]_vars

\* the functions analyzed so far
Analyzed == {scan.of[k] : k \in 1..(scan.j - 1)}

\* what the loop of lines 90-138 returns when it runs over every instruction
FullScan(F, known) ==
    (IF F.loop THEN {"LOOP"} ELSE {})
    \cup (IF F.vec THEN {"SIMD"} ELSE {})
    \cup UNION {InstFlags(F.insts[i], known) : i \in 1..Len(F.insts)}

\* the scan of function n returned from line 135 before its last instruction
StoppedEarly(n) ==
    \E i \in 1..(Len(funcs[Orig(n)].insts) - 1) :
        LET head == [funcs[Orig(n)] EXCEPT !.insts = SubSeq(@, 1, i)]
        IN  /\ {"SIMD", "MATH"} \subseteq func_infos[n]
            /\ func_infos[n] = FullScan(head, scan.known)
            /\ \E k \in 1..i : head.insts[k].op = "call" /\ head.insts[k].vec

\* C21: the bitmask collect_func_info returns for a function is the bitmask
\* a scan of all its instructions returns, the clone-cpu-dispatch and
\* clone-float16 bits included, also where the scan stopped early.
C21_EarlyReturnKeepsBitmask ==
    \A n \in Analyzed : func_infos[n] = FullScan(funcs[Orig(n)], scan.known)

\* a scan that stopped at a vector call with a fast-math flag, before an
\* operation on a half value: the bitmask lacks the clone-float16 bit
C21_Witness ==
    /\ pc = "analyzed"
    /\ \E n \in Analyzed :
          /\ StoppedEarly(n)
          /\ "FLOAT16" \in FullScan(funcs[Orig(n)], scan.known)
          /\ "FLOAT16" \notin func_infos[n]

\* has_veccall as the sweep handed it to the call for function n
VeccallBefore(n) ==
    \E k \in 1..(scan.j - 1) :
        /\ scan.of[k] = n
        /\ \E m \in 1..(k - 1) :
              collect_func_info(funcs[Orig(scan.of[m])], FALSE, scan.known).has_veccall

\* C28: the bitmask of a function is what collect_func_info returns for its
\* body with has_veccall unset and with has_veccall set, so it does not
\* depend on the functions analyzed before it.
C28_BitmaskIndependentOfVeccall ==
    \A n \in Analyzed :
        /\ func_infos[n] = collect_func_info(funcs[Orig(n)], FALSE, scan.known).flag
        /\ func_infos[n] = collect_func_info(funcs[Orig(n)], TRUE, scan.known).flag

\* a function without a vector call, analyzed after one with a vector call,
\* whose bitmask is not the one its body gets when analyzed first
C28_Witness ==
    /\ pc = "analyzed"
    /\ \E n \in Analyzed :
          /\ VeccallBefore(n)
          /\ \A i \in 1..Len(funcs[Orig(n)].insts) :
                ~(funcs[Orig(n)].insts[i].op = "call" /\ funcs[Orig(n)].insts[i].vec)
          /\ func_infos[n] # collect_func_info(funcs[Orig(n)], FALSE, scan.known).flag

\* ------------------------------------------------------------- phases
\* the calls of lines 926-951, and what follows the last
PhaseOrder ==
    <<"ctor", "prepare_slots", "clone_decls", "clone_bodies", "fix_gv_uses",
      "fix_inst_uses", "emit_metadata", "done">>

\* the clones there are, and those with a body
Clones(fs) == {F \in DOMAIN fs : F[1] = "f" /\ F[3] # 0}
CloneBodies(fs) == {F \in Clones(fs) : ~fs[F].decl}

\* no function fix_gv_uses visits is named by the alias or the initializer
DataUsesRewritten ==
    \A k \in 1..Len(orig_funcs) :
        (Len(groups) = 1 /\ orig_funcs[k] \notin cloned)
        \/ (alias # orig_funcs[k][2] /\ RefCount(gv_init, orig_funcs[k][2]) = 0)

\* C22: in a run that does not skip, every phase runs at most once and in
\* the order prepare_slots, clone_decls, clone_bodies, fix_gv_uses,
\* fix_inst_uses, emit_metadata, each followed by the next unless the run
\* is stopped there; relocation slots are made in prepare_slots only, clone
\* declarations in clone_decls only, clone bodies in clone_bodies only;
\* fix_gv_uses rewrites no instruction, has left no data reference of a
\* function it visits when fix_inst_uses starts, and fix_inst_uses touches
\* neither the initializer, the alias nor the relocations recorded.
C22_PhasesOnceInOrder ==
    /\ [][ \A k \in 1..(Len(PhaseOrder) - 1) :
              pc = PhaseOrder[k] => pc' \in {PhaseOrder[k + 1], "abort"} ]_vars
    /\ [][ pc # "prepare_slots" =>
              UNCHANGED <<slots, const_relocs, extern_relocs>> ]_vars
    /\ [][ pc # "clone_decls" =>
              created' = created /\ Clones(funcs') = Clones(funcs) ]_vars
    /\ [][ pc # "clone_bodies" => CloneBodies(funcs') = CloneBodies(funcs) ]_vars
    /\ [][ pc = "fix_gv_uses" => \A F \in DOMAIN funcs : funcs'[F] = funcs[F] ]_vars
    /\ [][ pc = "fix_inst_uses" => UNCHANGED <<gv_init, alias, gv_relocs>> ]_vars
    /\ [](pc \in {"fix_inst_uses", "emit_metadata", "done"} => DataUsesRewritten)
    /\ [](pc = "done" => mod.changed = "true")

\* a run to the end in which every phase had work: a slot, a clone with a
\* body, two relocations of one function, a call site that loads a slot
C22_Witness ==
    /\ pc = "done"
    /\ slots # <<>>
    /\ CloneBodies(funcs) # {}
    /\ Len(gv_relocs) = 2
    /\ gv_relocs[1][2] = gv_relocs[2][2]
    /\ \E g \in DOMAIN funcs : SlotLoads(g) # {}

\* ------------------------------------------------------------- clone sources
\* the body CloneFunctionInto makes of the body of src under the value map
\* of target t
ClonedFrom(src, t) ==
    [funcs[src] EXCEPT !.refs = {IF r \in DOMAIN vmap[t] THEN vmap[t][r] ELSE r : r \in @}]

\* the version of function n the group at place p (from 1) is rooted at
GroupRootOf(p, n) == IF p = 1 THEN Orig(n) ELSE Fn(n, groups[p].idx)

\* the subtarget clones with a body, as <<place of the group, target, function>>
SubtargetBodies ==
    {x \in (1..Len(groups)) \X (DOMAIN specs) \X Funcs :
        /\ \E j \in 1..Len(groups[x[1]].clones) : groups[x[1]].clones[j] = x[2]
        /\ HasBody(funcs, Orig(x[3]))
        /\ Fn(x[3], x[2]) \in DOMAIN funcs}

\* C23: when clone_bodies has returned, every clone of a function with a
\* body for a subtarget of a group rooted at a clone_all target is the
\* body of the group's full clone of the function, which has its body,
\* taken through the subtarget's value map; for a subtarget of group 0 it
\* is the body of the original taken through the subtarget's value map.
C23_SubtargetCloneSource ==
    pc = "fix_gv_uses" =>
        \A x \in SubtargetBodies :
            /\ HasBody(funcs, GroupRootOf(x[1], x[3]))
            /\ funcs[Fn(x[3], x[2])] = ClonedFrom(GroupRootOf(x[1], x[3]), x[2])

\* a subtarget clone in a group rooted at a clone_all target whose body
\* calls the group's full clone of another function
C23_Witness ==
    /\ pc = "fix_gv_uses"
    /\ \E x \in SubtargetBodies :
          /\ x[1] > 1
          /\ \E c \in Funcs :
                /\ Orig(c) \in funcs[Orig(x[3])].refs
                /\ Fn(c, groups[x[1]].idx) \in funcs[Fn(x[3], x[2])].refs

\* ------------------------------------------------------------- slot requests
\* rewrite_alias is about to ask for the slot of the aliased function
\* (lines 594, 633-634, 651-656)
AliasSlotRequests ==
    {F \in {orig_funcs[k] : k \in 1..Len(orig_funcs)} :
        /\ alias = F[2]
        /\ ~(Len(groups) = 1 /\ F \notin cloned)}

\* the functions whose slot the callback of lines 733-741 asks for
InstSlotRequests ==
    {F \in {orig_funcs[k] : k \in 1..Len(orig_funcs)} :
        \E p \in 1..Len(groups) :
            /\ has_subtarget_clone(groups[p], vmap, F)
            /\ ReplacedUsers(funcs, fnattr, groups[p], base_func(groups[p], vmap, F)) # {}}

SlotFound(F) == get_reloc_slot(funcs, fvars, const_relocs, extern_relocs, F) # Nil

\* C24: every function whose relocation slot rewrite_alias or fix_inst_uses
\* asks for has a slot made by prepare_slots, whatever the target list.
C24_RequestedSlotExists ==
    /\ pc = "fix_gv_uses" => \A F \in AliasSlotRequests : SlotFound(F)
    /\ pc = "fix_inst_uses" => \A F \in InstSlotRequests : SlotFound(F)

\* subtargets without a clone_all target: fix_inst_uses asks for the slot
\* of a function no slot was made for
C24_Witness ==
    /\ pc = "fix_inst_uses"
    /\ FullTargets(specs) = {}
    /\ slots = <<>>
    /\ \E F \in InstSlotRequests : ~SlotFound(F)

\* ------------------------------------------------------------- clone keys
\* clone_decls created a clone of F for a subtarget of grp (line 448)
DeclaredForSubtarget(grp, F) ==
    \E j \in 1..Len(grp.clones) : \E k \in 1..Len(created) :
        created[k] = Fn(F[2], grp.clones[j])

\* C25: once clone_decls has returned, for every group and every function
\* of orig_funcs, has_subtarget_clone holds exactly when clone_decls
\* created a clone of the function for a subtarget of the group.
C25_SubtargetCloneKey ==
    pc \in {"clone_bodies", "fix_gv_uses", "fix_inst_uses"} =>
        \A p \in 1..Len(groups), k \in 1..Len(orig_funcs) :
            has_subtarget_clone(groups[p], vmap, orig_funcs[k])
            <=> DeclaredForSubtarget(groups[p], orig_funcs[k])

\* a group rooted at a clone_all target with a subtarget clone of a
\* function that has_subtarget_clone does not find
C25_Witness ==
    /\ pc = "fix_inst_uses"
    /\ \E p \in 2..Len(groups), k \in 1..Len(orig_funcs) :
          /\ DeclaredForSubtarget(groups[p], orig_funcs[k])
          /\ ~has_subtarget_clone(groups[p], vmap, orig_funcs[k])

\* ------------------------------------------------------------- group tags
\* the functions clone_bodies stamps for the group at place p (from 1):
\* the group's version of every function of orig_funcs and its clones for
\* the subtargets of the group (lines 511-526)
StampedFor(p) ==
    UNION { {GroupRootOf(p, orig_funcs[k][2])}
            \cup {Fn(orig_funcs[k][2], groups[p].clones[j]) : j \in 1..Len(groups[p].clones)}
            : k \in 1..Len(orig_funcs) }
    \cap DOMAIN funcs

\* C26: when clone_bodies has returned, the julia.mv.clone tag of every
\* function of a group is the value fix_inst_uses compares with for that
\* group (grpidx of line 732), whatever the target list.
C26_GroupTagIsComparedValue ==
    pc \in {"fix_gv_uses", "fix_inst_uses"} =>
        \A p \in 1..Len(groups) : \A F \in StampedFor(p) :
            fnattr[F].clone = groups[p].idx

\* a subtarget ahead of a clone_all target: the functions of the group
\* rooted at the clone_all target carry the group's place, not its index
C26_Witness ==
    /\ pc = "fix_inst_uses"
    /\ \E p \in 2..Len(groups) :
          /\ groups[p].idx # p - 1
          /\ StampedFor(p) # {}
          /\ \A F \in StampedFor(p) : fnattr[F].clone = p - 1

\* ------------------------------------------------------------- visiting orders
\* the sets the loop of lines 180-210 can return for the call graph and
\* the seed set of this run, over the orders in which cur_set and the call
\* records of a node can be visited
OtherOrders == Closures(CalleeSets(prop.cg), prop.seed)

\* C27: the set the propagator returns for a call graph and a seed set is
\* the set it returns under every other order of visiting the frontier
\* functions and their call edges.
C27_OrderIndependentCloneSet ==
    (prop.run = 1 /\ LoopEnded) => \A r \in OtherOrders : r = prop.all

\* a run that has ended with a set another visiting order does not end with
C27_Witness ==
    /\ prop.run = 1
    /\ LoopEnded
    /\ prop.all \in OtherOrders
    /\ \E r \in OtherOrders : r # prop.all /\ prop.all \subseteq r

\* ------------------------------------------------------------- consume_gv, stepped
\* consume_gv<Function> on jl_fvars (lines 325-359), one pass of its while
\* loop at a time.  The module holds functions 1 and 2 with a body,
\* function 3 as a declaration and the data symbol; the table has at most
\* MaxEntries operands.  In the strict mode the table is the one the code
\* generator made: functions with a body only.
MaxEntries == 3

\* the test of line 345 without allow_bad_fvars
BadEntry(fs, val) == val[1] # "f" \/ fs[val].decl

EntryValues == {Orig(n) : n \in Funcs} \cup {DataGV}
ExportTables == UNION {[1..l -> EntryValues] : l \in 0..MaxEntries}

InitConsume ==
    /\ pc = "consume_gv"
    /\ funcs = [g \in {Orig(n) : n \in Funcs} |->
                  IF g[2] = NumFuncs THEN DeclRec ELSE BodyOf("plain", {})]
    /\ \E ops \in ExportTables, relaxed \in BOOLEAN :
          /\ ~relaxed => \A k \in 1..Len(ops) : ~BadEntry(funcs, ops[k])
          /\ consume = [ops |-> ops, i |-> 0, nele |-> Len(ops),
                        res |-> [k \in 1..Len(ops) |-> Nil], relaxed |-> relaxed]
          /\ mod = ModRec("text", relaxed, "array", "array", FALSE)
    /\ specs = [i \in {0} |-> [flags |-> {}, base |-> 0]]
    /\ fnattr = [g \in {Orig(n) : n \in Funcs} |-> NoAttrs]
    /\ alias = 0
    /\ gv_init = NoInit
    /\ veccall = FALSE
    /\ func_infos = [n \in Funcs |-> {}]
    /\ all_origs = [i \in {} |-> {}]
    /\ groups = <<>>
    /\ fvars = <<>>
    /\ orig_funcs = <<>>
    /\ cloned = {}
    /\ vmap = [i \in {} |-> <<>>]
    /\ slots = <<>>
    /\ const_relocs = [i \in {} |-> Nil]
    /\ extern_relocs = [i \in {} |-> Nil]
    /\ gv_relocs = <<>>
    /\ created = <<>>
    /\ clone_slots = <<>>
    /\ slots_count = -1
    /\ clone_idxs = <<>>
    /\ clone_offsets = <<>>
    /\ prop = PropIdle
    /\ off = OffIdle
    /\ dump = DumpIdle
    /\ scan = ScanIdle
    /\ part = PartIdle

besides_consume == <<specs, funcs, fnattr, alias, gv_init, veccall, func_infos, all_origs,
                     groups, orig_funcs, cloned, vmap, slots, const_relocs, extern_relocs,
                     gv_relocs, created, clone_slots, slots_count, clone_idxs,
                     clone_offsets, prop, off, dump, scan, part>>

\* lines 343-351, one pass of the loop
consume_gv_pass ==
    /\ pc = "consume_gv"
    /\ consume.i < consume.nele
    /\ LET val == consume.ops[consume.i + 1]
       IN  consume' = IF consume.relaxed /\ BadEntry(funcs, val)
                      THEN [consume EXCEPT !.nele = @ - 1]
                      ELSE [consume EXCEPT !.res[consume.i + 1] = val, !.i = @ + 1]
    /\ UNCHANGED <<pc, fvars, mod, besides_consume>>

\* lines 352-358 and 365: the loop over, the vector is cut to nele entries
\* and becomes CloneCtx::fvars; the table is erased
consume_gv_return ==
    /\ pc = "consume_gv"
    /\ consume.i >= consume.nele
    /\ consume' = [consume EXCEPT !.res = SubSeq(@, 1, consume.nele)]
    /\ fvars' = SubSeq(consume.res, 1, consume.nele)
    /\ mod' = [mod EXCEPT !.jl_fvars = "erased"]
    /\ pc' = "consumed"
    /\ UNCHANGED besides_consume

NextConsume == consume_gv_pass \/ consume_gv_return

SpecConsume == InitConsume /\ [][NextConsume]_vars

\* the loop is straight-line code on one thread
SpecConsumeFair == SpecConsume /\ WF_vars(NextConsume)

\* the entries of the table that are functions with a body, in table order
WellFormedEntries ==
    SelectSeq(consume.ops, LAMBDA v : ~BadEntry(funcs, v))

ConsumeTerminates == <>(pc = "consumed")

\* C29: in the relaxed mode consume_gv returns, and what it returns is the
\* table without its entries that are no function or a declaration: every
\* function with a body is kept, in table order, also behind a dropped
\* entry.
C29_RelaxedKeepsWellFormedEntries ==
    /\ ConsumeTerminates
    /\ [](pc = "consumed" /\ consume.relaxed => fvars = WellFormedEntries)

\* the relaxed mode has returned from a table with a function with a body
\* behind a bad entry, and the function is not in the vector returned
C29_Witness ==
    /\ pc = "consumed"
    /\ consume.relaxed
    /\ \E k \in 1..Len(consume.ops) :
          /\ ~BadEntry(funcs, consume.ops[k])
          /\ \E b \in 1..(k - 1) : BadEntry(funcs, consume.ops[b])
          /\ \A j \in 1..Len(fvars) : fvars[j] # consume.ops[k]

\* ------------------------------------------------------------- partitionModule
\* partitionModule (src/unnamed/part_000, lines 668-797) on a module of two
\* functions, two data symbols and at most one alias, every global value
\* named and of external linkage (lines 464-466, 1050-1054).
MaxPartRefs == 2

Data(k) == <<"d", k, 0>>

\* A global value.  kind: "func", "var" or "alias"; decl: isDeclaration();
\* bbs: the sizes of the basic blocks of a function; clones: julia.mv.clones
\* as a number, -1 when absent; refs: the global values the initializer or
\* the aliasee names.
GlobalRec(kind, decl, bbs, clones, refs) ==
    [kind |-> kind, decl |-> decl, bbs |-> bbs, clones |-> clones, refs |-> refs]

\* M.global_values(): functions, then variables, then aliases
ModuleOrder == <<Orig(1), Orig(2), Data(1), Data(2), AliasGV>>

RECURSIVE PopCount(_)
PopCount(bits) == IF bits = 0 THEN 0 ELSE (bits % 2) + PopCount(bits \div 2)

\* getFunctionWeight (lines 613-629)
getFunctionWeight(F) ==
    LET weight == 1 + SumSeq(F.bbs) + Len(F.bbs)
    IN  IF F.clones # -1 THEN weight * (PopCount(F.clones) + 1) ELSE weight

\* the sequences that hold every element of S once
SeqsOf(S) ==
    {q \in [1..Cardinality(S) -> S] : \A a, b \in 1..Cardinality(S) : a # b => q[a] # q[b]}

FuncShapes ==
    {GlobalRec("func", TRUE, <<>>, -1, {}),
     GlobalRec("func", FALSE, <<1>>, -1, {}),
     GlobalRec("func", FALSE, <<2, 1>>, 2, {})}

VarShapes(self) ==
    {GlobalRec("var", TRUE, <<>>, -1, {})}
    \cup {GlobalRec("var", FALSE, <<>>, -1, R) :
            R \in {R \in SUBSET ({Orig(1), Orig(2), Data(1), Data(2)} \ {self}) :
                     Cardinality(R) <= MaxPartRefs}}

\* the module of functions f1, f2, data symbols d1, d2 and, where al is
\* not 0, an alias of function al
PartModule(f1, f2, d1, d2, al) ==
    [g \in {Orig(1), Orig(2), Data(1), Data(2)} \cup (IF al = 0 THEN {} ELSE {AliasGV}) |->
        IF g = Orig(1) THEN f1
        ELSE IF g = Orig(2) THEN f2
        ELSE IF g = Data(1) THEN d1
        ELSE IF g = Data(2) THEN d2
        ELSE GlobalRec("alias", FALSE, <<>>, -1, {Orig(al)})]

InitPartition ==
    /\ pc = "get_fvars_gvars"
    /\ \E f1 \in FuncShapes, f2 \in FuncShapes, al \in 0..2 :
       \E d1 \in VarShapes(Data(1)), d2 \in VarShapes(Data(2)) :
       \E threads \in 2..MaxThreads, debug \in BOOLEAN :
          LET m == PartModule(f1, f2, d1, d2, al)
          IN  /\ Cardinality({g \in DOMAIN m : m[g].refs # {}}) <= MaxPartRefs
              /\ al # 0 => ~m[Orig(al)].decl
              /\ \E ft \in SeqsOf({g \in DOMAIN m : m[g].kind = "func" /\ ~m[g].decl}) :
                 \E gt \in SeqsOf({g \in DOMAIN m : m[g].kind = "var" /\ ~m[g].decl}) :
                    part = [PartIdle EXCEPT !.gvs = m, !.ftab = ft, !.gtab = gt,
                                            !.threads = threads, !.debug = debug]
    /\ mod = ModStrict
    /\ funcs = [g \in {} |-> DeclRec]
    /\ fnattr = [g \in {} |-> NoAttrs]
    /\ specs = [i \in {0} |-> [flags |-> {}, base |-> 0]]
    /\ alias = 0
    /\ gv_init = NoInit
    /\ veccall = FALSE
    /\ func_infos = [n \in Funcs |-> {}]
    /\ all_origs = [i \in {} |-> {}]
    /\ groups = <<>>
    /\ fvars = <<>>
    /\ orig_funcs = <<>>
    /\ cloned = {}
    /\ vmap = [i \in {} |-> <<>>]
    /\ slots = <<>>
    /\ const_relocs = [i \in {} |-> Nil]
    /\ extern_relocs = [i \in {} |-> Nil]
    /\ gv_relocs = <<>>
    /\ created = <<>>
    /\ clone_slots = <<>>
    /\ slots_count = -1
    /\ clone_idxs = <<>>
    /\ clone_offsets = <<>>
    /\ prop = PropIdle
    /\ off = OffIdle
    /\ dump = DumpIdle
    /\ scan = ScanIdle
    /\ consume = ConsumeIdle

besides_part == <<specs, funcs, fnattr, alias, gv_init, veccall, func_infos, all_origs,
                  groups, fvars, orig_funcs, cloned, vmap, slots, const_relocs, extern_relocs,
                  gv_relocs, created, clone_slots, slots_count, clone_idxs, clone_offsets,
                  prop, off, dump, scan, consume>>

\* lines 598-605: a later operand overwrites the index of an earlier one
IndexMap(tab) ==
    [g \in {tab[k] : k \in 1..Len(tab)} |->
        (CHOOSE k \in 1..Len(tab) : tab[k] = g /\ \A j \in (k + 1)..Len(tab) : tab[j] # g) - 1]

\* get_fvars_gvars (lines 587-611)
get_fvars_gvars ==
    /\ pc = "get_fvars_gvars"
    /\ part' = [part EXCEPT !.fvars = IndexMap(part.ftab), !.gvars = IndexMap(part.gtab)]
    /\ mod' = [mod EXCEPT !.jl_fvars = "erased", !.jl_gvars = "erased"]
    /\ pc' = "make"
    /\ UNCHANGED besides_part

\* the global values with a definition, in module order
RECURSIVE DefinedGlobals(_, _)
DefinedGlobals(m, k) ==
    IF k > Len(ModuleOrder)
    THEN <<>>
    ELSE (IF ModuleOrder[k] \in DOMAIN m /\ ~m[ModuleOrder[k]].decl
          THEN <<ModuleOrder[k]>>
          ELSE <<>>) \o DefinedGlobals(m, k + 1)

\* lines 717-725: make for every global value with a definition
make ==
    /\ pc = "make"
    /\ LET gs == DefinedGlobals(part.gvs, 1)
       IN  part' = [part EXCEPT
                      !.nodes = [n \in 0..(Len(gs) - 1) |->
                                   [GV |-> gs[n + 1], parent |-> n, size |-> 1,
                                    weight |-> IF part.gvs[gs[n + 1]].kind = "func"
                                               THEN getFunctionWeight(part.gvs[gs[n + 1]])
                                               ELSE 1]],
                      !.node_map = [g \in {gs[k] : k \in 1..Len(gs)} |->
                                      (CHOOSE k \in 1..Len(gs) : gs[k] = g) - 1],
                      !.i = 0]
    /\ pc' = "merge"
    /\ UNCHANGED <<mod, besides_part>>

\* find without the walk to the root
findSelf(nodes, idx) == [nodes |-> nodes, idx |-> idx]

\* Partitioner::find (lines 692-698): the root, and the nodes with the
\* path halved
RECURSIVE find(_, _)
find(nodes, idx) ==
    IF nodes[idx].parent = idx
    THEN [nodes |-> nodes, idx |-> idx]
    ELSE LET halved == [nodes EXCEPT ![idx].parent = nodes[nodes[idx].parent].parent]
         IN  find(halved, halved[idx].parent)

\* Partitioner::merge (lines 700-712)
merge(nodes, x0, y0) ==
    LET fx == find(nodes, x0)
        fy == find(fx.nodes, y0)
        ns == fy.nodes
        swap == ns[fx.idx].size < ns[fy.idx].size
        x == IF swap THEN fy.idx ELSE fx.idx
        y == IF swap THEN fx.idx ELSE fy.idx
    IN  IF fx.idx = fy.idx
        THEN ns
        ELSE [ns EXCEPT ![y].parent = x,
                        ![x].size = @ + ns[y].size,
                        ![x].weight = @ + ns[y].weight]

\* lines 729-734 for node i and its users in the order given
RECURSIVE MergeUsers(_, _, _, _)
MergeUsers(nodes, node_map, i, users) ==
    IF users = <<>>
    THEN nodes
    ELSE MergeUsers(merge(nodes, i, node_map[Head(users)]), node_map, i, Tail(users))

\* ConstantUses<GlobalValue>(GV, M): the global values whose initializer or
\* aliasee names GV
UsersOf(m, GV) == {h \in DOMAIN m : GV \in m[h].refs}

\* lines 728-735 for one node; the use list of a value has no order the
\* module determines
merge_uses ==
    /\ pc = "merge"
    /\ part.i \in DOMAIN part.nodes
    /\ \E users \in SeqsOf(UsersOf(part.gvs, part.nodes[part.i].GV)) :
          part' = [part EXCEPT !.nodes = MergeUsers(part.nodes, part.node_map, part.i, users),
                               !.i = @ + 1]
    /\ UNCHANGED <<pc, mod, besides_part>>

\* lines 737-753: the partitions, and the nodes sorted by falling weight;
\* std::sort leaves the order of nodes of equal weight open
sort_nodes ==
    /\ pc = "merge"
    /\ part.i \notin DOMAIN part.nodes
    /\ \E idxs \in SeqsOf(DOMAIN part.nodes) :
          /\ \A a, b \in 1..Len(idxs) :
                a < b => part.nodes[idxs[a]].weight >= part.nodes[idxs[b]].weight
          /\ part' = [part EXCEPT
                        !.idxs = idxs,
                        !.idx = 0,
                        !.partitions = [q \in 0..(part.threads - 1) |->
                                          [globals |-> {}, fvars |-> [g \in {} |-> 0],
                                           gvars |-> [g \in {} |-> 0], weight |-> 0]]]
    /\ pc' = "assign"
    /\ UNCHANGED <<mod, besides_part>>

\* lines 764-769 and 781-786: the global enters partition q
Insert(P, GV, fv, gv) ==
    [P EXCEPT !.globals = @ \cup {GV},
              !.fvars = IF GV \in DOMAIN fv THEN MapPut(@, GV, fv[GV]) ELSE @,
              !.gvars = IF GV \in DOMAIN gv THEN MapPut(@, GV, gv[GV]) ELSE @]

\* lines 757-789 for idxs[idx]; pq.top() is a partition of least weight
assign ==
    /\ pc = "assign"
    /\ part.idx < Len(part.idxs)
    /\ LET i == part.idxs[part.idx + 1]
           f == find(part.nodes, i)
           root == f.idx
           fresh == f.nodes[root].GV # Nil
       IN  IF part.debug /\ root # i /\ fresh
           THEN /\ pc' = "abort"
                /\ part' = [part EXCEPT !.nodes = f.nodes]
           ELSE /\ \E q \in {q \in DOMAIN part.partitions :
                               \A r \in DOMAIN part.partitions :
                                   part.partitions[q].weight <= part.partitions[r].weight} :
                      LET ps1 == IF fresh
                                 THEN [part.partitions EXCEPT
                                         ![q] = [Insert(@, f.nodes[root].GV, part.fvars, part.gvars)
                                                   EXCEPT !.weight = @ + f.nodes[root].weight]]
                                 ELSE part.partitions
                          ns1 == IF fresh
                                 THEN [f.nodes EXCEPT ![root].GV = Nil, ![root].size = q]
                                 ELSE f.nodes
                          ps2 == IF root # i
                                 THEN [ps1 EXCEPT ![ns1[root].size] =
                                          Insert(@, ns1[i].GV, part.fvars, part.gvars)]
                                 ELSE ps1
                          ns2 == IF root # i
                                 THEN [ns1 EXCEPT ![i].GV = Nil, ![i].size = ns1[root].size]
                                 ELSE ns1
                      IN  part' = [part EXCEPT !.nodes = ns2, !.partitions = ps2,
                                               !.idx = @ + 1]
                /\ pc' = pc
    /\ UNCHANGED <<mod, besides_part>>

\* verify_partitioning (lines 632-665) in a debug build: a name in two
\* partitions, a declared variable in a partition, a defined variable in
\* none
verify_partitioning(partitions, m) ==
    /\ \A q, r \in DOMAIN partitions :
          q # r => partitions[q].globals \cap partitions[r].globals = {}
    /\ \A g \in DOMAIN m :
          m[g].kind = "var" =>
              (m[g].decl <=> \A q \in DOMAIN partitions : g \notin partitions[q].globals)

\* lines 792-796
return_partitions ==
    /\ pc = "assign"
    /\ part.idx >= Len(part.idxs)
    /\ pc' = IF part.debug /\ ~verify_partitioning(part.partitions, part.gvs)
             THEN "abort"
             ELSE "partitioned"
    /\ UNCHANGED <<part, mod, besides_part>>

NextPartition ==
    \/ get_fvars_gvars
    \/ make
    \/ merge_uses
    \/ sort_nodes
    \/ assign
    \/ return_partitions

SpecPartition == InitPartition /\ [][NextPartition]_vars

\* the partitions that hold global value g
PartitionsOf(g) == {q \in DOMAIN part.partitions : g \in part.partitions[q].globals}

\* the indices recorded in rec are those of the names of P in table tab
IndicesOf(P, rec, tab) ==
    /\ DOMAIN rec = P.globals \cap {tab[k] : k \in 1..Len(tab)}
    /\ \A g \in DOMAIN rec : tab[rec[g] + 1] = g

\* C30: partitionModule returns, no assertion of it failing, and in what it
\* returns every global value with a definition is in exactly one
\* partition and every declaration in none; two global values with a
\* definition of which one is named in the initializer or as the aliasee
\* of the other are in the same partition; and the indices a partition
\* records for its exported symbols are their places in jl_fvars and
\* jl_gvars.
C30_PartitionInvariants ==
    /\ pc # "abort"
    /\ pc = "partitioned" =>
          /\ \A g \in DOMAIN part.gvs :
                Cardinality(PartitionsOf(g)) = (IF part.gvs[g].decl THEN 0 ELSE 1)
          /\ \A g \in DOMAIN part.gvs, h \in DOMAIN part.gvs :
                (~part.gvs[g].decl /\ g \in part.gvs[h].refs)
                => PartitionsOf(g) = PartitionsOf(h)
          /\ \A q \in DOMAIN part.partitions :
                /\ IndicesOf(part.partitions[q], part.partitions[q].fvars, part.ftab)
                /\ IndicesOf(part.partitions[q], part.partitions[q].gvars, part.gtab)

\* two partitions in use, one of them holding a symbol together with two
\* symbols its initializer names, and an export index other than 0 recorded
C30_Witness ==
    /\ pc = "partitioned"
    /\ \E q \in DOMAIN part.partitions, r \in DOMAIN part.partitions :
          /\ q # r
          /\ part.partitions[r].globals # {}
          /\ \E h \in part.partitions[q].globals :
                /\ Cardinality(part.gvs[h].refs) = 2
                /\ part.gvs[h].refs \subseteq part.partitions[q].globals
          /\ \E g \in DOMAIN part.partitions[q].fvars : part.partitions[q].fvars[g] = 1
====
